---- MODULE Spec2Model ----
(***************************************************************************)
(* Model of the Lumina media controller's media service                    *)
(* (src/src/media-service.js).  The file holds two variants of the         *)
(* service: the signal-driven one (lines 1-703) and the busctl polling one *)
(* (lines 705-1007).                                                       *)
(*                                                                         *)
(*   SpecStream : the signal stream parser, handleStreamData               *)
(***************************************************************************)
EXTENDS Integers, Sequences, FiniteSets, TLC

VARIABLES
    \* ---- signal stream parser (media-service.js:25, 339-385)
    stream,         \* records the two dbus-monitor children will still print
    printed,        \* records printed so far, in order
    pending,        \* text already printed and not yet delivered as a chunk
    pendingSys,     \* the same for the second dbus-monitor child (systemMonitor)
    monitorBuffer,  \* let monitorBuffer (line 25)
    dispatched,     \* blocks handed to processSignalBlock, in order
    \* ---- signal-driven variant (media-service.js:24-29)
    playerMap,      \* let playerMap: connection id -> well-known name
    playerStateMap, \* let playerStateMap: the state table, in insertion order
    playerCache,    \* let playerCache: well-known name -> resolved display name
    activeSenderId, \* let activeSenderId
    fetches,        \* updatePlayerStateManually calls suspended at an await
    refreshes,      \* refreshPlayerMap cycles suspended at an await
    clock,          \* Date.now()
    \* ---- the session bus and the dbus-monitor children
    bus,            \* well-known name -> owning connection id ("" if none)
    conns,          \* connection ids handed out so far
    actual,         \* well-known name -> the PlaybackStatus its player is in
    activePlayerName, lastKnownState, lastSysVol, lastPlayerListStr,
                    \* the globals of the polling variant (lines 722-726)
    pollInterval,   \* whether the 1000 ms interval timer is set
    cycles,         \* the pollLoop calls suspended at a bus call
    timers,         \* setTimeout(pollLoop, 100) timers not fired yet
    uiVolume,       \* the last system-volume-update the display received
    events,         \* things the players have done so far
    sigQ,           \* signal blocks printed and not yet handled
    \* ---- history
    lastOp,         \* the handler that ran last
    gone,           \* ids whose owner loss was handled and which were not announced since
    requeries,      \* well-known name -> when sendBestAvailablePlayer scheduled its
                    \* last two re-queries of the player
    \* ---- the display (what sendToUI delivered last on each channel)
    uiMedia,        \* media-update
    uiList,         \* player-list-update
    \* ---- the system mixer (amixer, lines 669-686 and 830-841, 979-985)
    mixer,          \* the Master control: its percentage and its mute switch
    amixerCalls,    \* amixer sset processes spawned and not yet run
    mixerLog        \* what was done to the mixer so far, oldest first

streamVars == <<stream, printed, pending, pendingSys, monitorBuffer, dispatched>>

sigVars == <<playerMap, playerStateMap, playerCache, activeSenderId, fetches, clock>>

envVars == <<refreshes, bus, conns, actual, events, sigQ, lastOp, gone, requeries>>

uiVars == <<uiMedia, uiList>>

pollVars == <<activePlayerName, lastKnownState, lastSysVol, lastPlayerListStr,
              pollInterval, cycles, timers, uiVolume>>

volVars == <<mixer, amixerCalls, mixerLog>>

vars == <<stream, printed, pending, pendingSys, monitorBuffer, dispatched, playerMap, playerStateMap,
          playerCache, activeSenderId, fetches, clock, uiMedia, uiList, refreshes, bus,
          conns, actual, events, sigQ, lastOp, gone, requeries, activePlayerName, lastKnownState,
          lastSysVol, lastPlayerListStr, pollInterval, cycles, timers, uiVolume,
          mixer, amixerCalls, mixerLog>>

(***************************************************************************)
(* Text.  dbus-monitor output is modelled as a sequence of tokens, each    *)
(* standing for a run of characters that the parser cannot tell apart:     *)
(*   "Hs" "Ht"  the two halves of a record header `signal time=12` `.5 `   *)
(*              (the split regex matches only where both are present)      *)
(*   "MP"       header text holding `member=PropertiesChanged`             *)
(*   "MN"       header text holding `member=NameOwnerChanged`              *)
(*   "SQ"       `string "`  (ends in a quote)                              *)
(*   "CQ"       a closing `"`                                              *)
(*   "CB"       a closing `]`                                              *)
(*   "OB"       `array [` or `dict entry(`                                 *)
(*   "TX"       any other text, not ending in a quote or closing bracket   *)
(*   "WS"       white space (blanks, line ends)                            *)
(***************************************************************************)
\* String.prototype.trim
RECURSIVE TrimLeft(_)
TrimLeft(s) == IF s # <<>> /\ Head(s) = "WS" THEN TrimLeft(Tail(s)) ELSE s

RECURSIVE TrimRight(_)
TrimRight(s) ==
    IF s # <<>> /\ s[Len(s)] = "WS" THEN TrimRight(SubSeq(s, 1, Len(s) - 1)) ELSE s

Trim(s) == TrimRight(TrimLeft(s))

Includes(s, tok) == \E i \in 1..Len(s) : s[i] = tok

EndsWith(s, toks) == s # <<>> /\ s[Len(s)] \in toks

\* (trimmed.match(/string "/g) || []).length
StringCount(s) == Cardinality({i \in 1..Len(s) : s[i] = "SQ"})

\* Places where /(?=signal time=\d+\.\d+ )/ matches; a zero-width match at the
\* very start of the text does not split.
SplitPoints(b) == {i \in 2..Len(b) : b[i] = "Hs" /\ i < Len(b) /\ b[i + 1] = "Ht"}

\* monitorBuffer.split(/(?=signal time=\d+\.\d+ )/)
RECURSIVE SplitFrom(_, _)
SplitFrom(b, from) ==
    LET later == {i \in SplitPoints(b) : i > from}
    IN  IF later = {}
        THEN <<SubSeq(b, from, Len(b))>>
        ELSE LET nxt == CHOOSE i \in later : \A j \in later : i <= j
             IN  <<SubSeq(b, from, nxt - 1)>> \o SplitFrom(b, nxt)

SplitSignals(b) == SplitFrom(b, 1)

\* The completeness heuristic for the last piece (lines 357-370).
IsComplete(s) ==
    LET trimmed == Trim(s)
        isNameOwner == Includes(trimmed, "MN")
        isProps == Includes(trimmed, "MP")
    IN  IF isNameOwner
        THEN StringCount(trimmed) >= 3 /\ EndsWith(trimmed, {"SQ", "CQ"})
        ELSE isProps /\ EndsWith(trimmed, {"CB"})

\* a handler that keeps the last piece in the buffer after dispatching it
HandleStreamDataKeepsLast(buf, data) ==
    LET b == buf \o data
        signals == SplitSignals(b)
        n == Len(signals)
        last == signals[n]
        lastBlank == Trim(last) = <<>>
        lastReady == ~lastBlank /\ IsComplete(last)
        earlier == SelectSeq(SubSeq(signals, 1, n - 1), LAMBDA s : Trim(s) # <<>>)
    IN  [buffer |-> IF lastBlank THEN <<>> ELSE last,
         ready  |-> IF lastReady THEN Append(earlier, last) ELSE earlier]

\* handleStreamData (lines 339-385): the new buffer and the blocks handed to
\* processSignalBlock, in order.
HandleStreamData(buf, data) ==
    LET b == buf \o data
        signals == SplitSignals(b)
        n == Len(signals)
        last == signals[n]
        lastBlank == Trim(last) = <<>>
        lastReady == ~lastBlank /\ IsComplete(last)
        earlier == SelectSeq(SubSeq(signals, 1, n - 1), LAMBDA s : Trim(s) # <<>>)
    IN  [buffer |-> IF lastBlank \/ lastReady THEN <<>> ELSE last,
         ready  |-> IF lastReady THEN Append(earlier, last) ELSE earlier]

(***************************************************************************)
(* Complete records as dbus-monitor prints them.                           *)
(***************************************************************************)
Header == <<"Hs", "Ht">>

\* signal ... member=PropertiesChanged / string "iface" / array [ dict entry(
\* string "Metadata" variant array [ ... ] ) dict entry( ... ) ] / array [ ]
PropsRecord ==
    Header \o <<"MP", "WS", "OB", "TX", "OB", "TX", "CB", "WS", "TX", "CB",
                "WS", "OB", "WS", "CB", "WS">>

\* signal ... member=NameOwnerChanged / string "name" / string ":1.7" / string ""
NameOwnerRecord ==
    Header \o <<"MN", "WS", "SQ", "TX", "CQ", "WS", "SQ", "TX", "CQ", "WS",
                "SQ", "CQ", "WS">>

Records == {PropsRecord, NameOwnerRecord}

MaxRecords == 2

RECURSIVE SeqsUpTo(_, _)
SeqsUpTo(S, n) ==
    IF n = 0 THEN {<<>>}
    ELSE LET shorter == SeqsUpTo(S, n - 1)
         IN  shorter \cup {Append(q, x) : q \in {r \in shorter : Len(r) = n - 1}, x \in S}

StreamIdle ==
    /\ stream = <<>>
    /\ printed = <<>>
    /\ pending = <<>>
    /\ pendingSys = <<>>
    /\ monitorBuffer = <<>>
    /\ dispatched = <<>>

\* nothing has been sent to the display yet
Unsent == [unsent |-> TRUE]
UnsentList == <<Unsent>>

\* Date.now() when the process starts: any time of day, far above ThrottleMs
StartMs == 10000

\* the module's globals as the file's top level leaves them (lines 25-29)
SignalIdle ==
    /\ playerMap = <<>>
    /\ playerStateMap = <<>>
    /\ playerCache = <<>>
    /\ activeSenderId = ""
    /\ fetches = <<>>
    /\ clock = StartMs

UiIdle ==
    /\ uiMedia = Unsent
    /\ uiList = UnsentList

NoOp == [op |-> "none"]

EnvIdle ==
    /\ refreshes = <<>>
    /\ bus = [n \in {"org.mpris.MediaPlayer2.vlc", "org.mpris.MediaPlayer2.plasma-browser-integration"} |-> ""]
    /\ conns = 0
    /\ actual = [n \in {"org.mpris.MediaPlayer2.vlc", "org.mpris.MediaPlayer2.plasma-browser-integration"} |-> "Stopped"]
    /\ events = 0
    /\ sigQ = <<>>
    /\ lastOp = NoOp
    /\ gone = {}
    /\ requeries = [n \in {"org.mpris.MediaPlayer2.vlc", "org.mpris.MediaPlayer2.plasma-browser-integration"} |-> [at |-> -1, prev |-> -1]]

\* the polling variant's globals as its top level leaves them (lines 722-726);
\* the empty lastPlayerListStr is the text of no list
PollIdle ==
    /\ activePlayerName = ""
    /\ lastKnownState = [title |-> "", artist |-> ""]
    /\ lastSysVol = -1
    /\ lastPlayerListStr = UnsentList
    /\ pollInterval = FALSE
    /\ cycles = <<>>
    /\ timers = 0
    /\ uiVolume = -1

\* the mixer before the service has called amixer: Master at [62%] [on]
\* (the sample of line 835), no amixer process in flight
VolIdle ==
    /\ mixer = [vol |-> 62, muted |-> FALSE]
    /\ amixerCalls = <<>>
    /\ mixerLog = <<>>

StreamInit ==
    /\ stream \in SeqsUpTo(Records, MaxRecords) \ {<<>>}
    /\ printed = <<>>
    /\ pending = <<>>
    /\ pendingSys = <<>>
    /\ monitorBuffer = <<>>
    /\ dispatched = <<>>
    /\ SignalIdle
    /\ UiIdle
    /\ EnvIdle
    /\ PollIdle
    /\ VolIdle

\* dbus-monitor prints the next record.
Emit ==
    /\ stream # <<>>
    /\ pending' = pending \o Head(stream)
    /\ printed' = Append(printed, Head(stream))
    /\ stream' = Tail(stream)
    /\ UNCHANGED <<pendingSys, monitorBuffer, dispatched>>

\* stdout.on('data', handleStreamData): a chunk of any size reaches the handler.
Deliver ==
    \E k \in 1..Len(pending) :
        LET r == HandleStreamData(monitorBuffer, SubSeq(pending, 1, k))
        IN  /\ monitorBuffer' = r.buffer
            /\ dispatched' = dispatched \o r.ready
            /\ pending' = SubSeq(pending, k + 1, Len(pending))
            /\ UNCHANGED <<stream, printed, pendingSys>>

StreamNext == (Emit \/ Deliver) /\ UNCHANGED <<volVars, sigVars, uiVars, envVars, pollVars>>

SpecStream == StreamInit /\ [][StreamNext]_vars

\* The blocks dispatched when every record arrives as one chunk of its own.
RECURSIVE WholeFrom(_, _)
WholeFrom(buf, recs) ==
    IF recs = <<>> THEN <<>>
    ELSE LET r == HandleStreamData(buf, Head(recs))
         IN  r.ready \o WholeFrom(r.buffer, Tail(recs))

WholeDispatch(recs) == WholeFrom(<<>>, recs)

StreamDrained == stream = <<>> /\ pending = <<>>

\* C1: chunk-boundary invariance.  Once the whole stream has been delivered, in
\* whatever chunks, the blocks handed to processSignalBlock are those handed
\* over when every record is delivered whole.
C1_ChunkInvariance == StreamDrained => dispatched = WholeDispatch(printed)


(***************************************************************************)
(* The signal-driven variant (media-service.js:1-703).                     *)
(*                                                                         *)
(* Values.  A display name is the sequence of its blank-separated words;   *)
(* <<>> stands for null.  Other text fields are strings, "" standing for   *)
(* null as well as for the empty string (parseDBusBlock never yields an    *)
(* empty string: its patterns need one character at least).  A url is the  *)
(* sequence of its `/`-separated parts, each a sequence of tokens; <<>> is *)
(* no url.                                                                 *)
(***************************************************************************)
NoSender == ""
NoName == ""
NoPlayer == <<>>
NoUrl == <<>>
NoTime == -1

\* ---- well-known names on the bus, and what their players answer
VlcName == "org.mpris.MediaPlayer2.vlc"
PbiName == "org.mpris.MediaPlayer2.plasma-browser-integration"
\* the name a second VLC process takes
VlcInstanceName == "org.mpris.MediaPlayer2.vlc.instance4242"
Names == {VlcName, PbiName}

\* name.replace(/^org\.mpris\.MediaPlayer2\./, '').split('.'), each segment
\* split at [_-]
NameSegments(name) ==
    CASE name = VlcName -> << <<"vlc">> >>
      [] name = VlcInstanceName -> << <<"vlc">>, <<"instance4242">> >>
      [] name = PbiName -> << <<"plasma", "browser", "integration">> >>
      [] OTHER -> <<>>

\* s.toLowerCase().startsWith('instance')
IsInstanceSegment(seg) == seg # <<>> /\ Head(seg) \in {"instance", "Instance"}

\* The title-casing of one word (lines 144-148)
TitleCaseWord(w) ==
    CASE w \in {"vlc", "VLC", "Vlc"} -> "VLC"
      [] w \in {"spotify", "Spotify"} -> "Spotify"
      [] w = "plasma" -> "Plasma"
      [] w = "browser" -> "Browser"
      [] w = "integration" -> "Integration"
      [] w = "firefox" -> "Firefox"
      [] w = "chromium" -> "Chromium"
      [] w = "chrome" -> "Chrome"
      [] OTHER -> w

RECURSIVE FlattenWords(_)
FlattenWords(segs) ==
    IF segs = <<>> THEN <<>>
    ELSE [i \in 1..Len(Head(segs)) |-> TitleCaseWord(Head(segs)[i])]
             \o FlattenWords(Tail(segs))

\* beautifyPlayerName (lines 124-150)
BeautifyPlayerName(name) ==
    IF name = NoName THEN NoPlayer
    ELSE LET segments == SelectSeq(NameSegments(name), LAMBDA g : ~IsInstanceSegment(g))
         IN  IF segments = <<>> THEN <<"Media", "Player">> ELSE FlattenWords(segments)

\* The markers found in a lower-cased word by String.prototype.includes
WordMarks(w) ==
    CASE w \in {"Spotify", "spotify"} -> {"spotify"}
      [] w \in {"VLC", "vlc"} -> {"vlc"}
      [] w \in {"Firefox", "firefox"} -> {"firefox"}
      [] w \in {"Chrome", "chrome"} -> {"chrome"}
      [] w \in {"Beta", "beta"} -> {"beta"}
      [] w \in {"Dev", "dev"} -> {"dev"}
      [] w \in {"Canary", "canary"} -> {"canary"}
      [] OTHER -> {}

\* words.join(' ').toLowerCase().includes(mark)
NameIncludes(words, mark) == \E i \in 1..Len(words) : mark \in WordMarks(words[i])

\* ---- urls
SongUrl == << <<"file:">>, <<>>, <<>>, <<"home">>, <<"user">>, <<"Song", "%20", "Name.mp3">> >>

\* decodeURIComponent on one token; "%" alone is a malformed escape
DecodeToken(t) == IF t = "%20" THEN " " ELSE t

Malformed(url) == \E i \in 1..Len(url) : \E j \in 1..Len(url[i]) : url[i][j] = "%"

RECURSIVE JoinTokens(_)
JoinTokens(ts) == IF ts = <<>> THEN "" ELSE Head(ts) \o JoinTokens(Tail(ts))

\* path.basename(decodeURIComponent(url)), or path.basename(url) when the
\* decoding throws (lines 79-83)
UrlBasename(url) ==
    LET base == url[Len(url)]
    IN  IF Malformed(url) THEN JoinTokens(base)
        ELSE JoinTokens([i \in 1..Len(base) |-> DecodeToken(base[i])])

\* What the player behind a name answers: Identity, DesktopEntry, the command
\* line of its process, and the xesam:title and xesam:url of what it plays.
PlayerEnv(name) ==
    CASE name \in {VlcName, VlcInstanceName} ->
            [identity |-> <<"VLC", "media", "player">>, desktopEntry |-> <<"vlc">>,
             cmdline |-> <<"vlc">>, title |-> "", url |-> SongUrl]
      [] name = PbiName ->
            [identity |-> <<"Chromium">>, desktopEntry |-> <<"chromium">>,
             cmdline |-> <<"plasma", "browser", "integration", "host">>,
             title |-> "Song", url |-> NoUrl]
      [] OTHER -> [identity |-> NoPlayer, desktopEntry |-> <<>>, cmdline |-> <<>>,
                   title |-> "", url |-> NoUrl]

\* ---- records of the state table
Keys == {"sender", "player", "status", "title", "artist", "album", "artUrl", "url",
         "lastManualUpdate"}

\* the null of each key
Absent(k) ==
    CASE k = "player" -> NoPlayer
      [] k = "url" -> NoUrl
      [] k = "lastManualUpdate" -> NoTime
      [] OTHER -> ""

Carried(data, k) == data[k] # Absent(k)

CarriedKeys(data) == {k \in Keys : Carried(data, k)}

NoData == [k \in Keys |-> Absent(k)]

\* a record created with no status
NewRecordNoStatus(sender) ==
    [sender |-> sender, player |-> <<"Media", "Player">>, status |-> "",
     title |-> "Unknown Title", artist |-> "Unknown Artist", album |-> "---",
     artUrl |-> "", url |-> <<>>, lastUpdated |-> -1, lastManualUpdate |-> -1]

\* the record updatePlayerState creates (lines 38-48)
NewRecord(sender) ==
    [sender |-> sender, player |-> <<"Media", "Player">>, status |-> "Stopped",
     title |-> "Unknown Title", artist |-> "Unknown Artist", album |-> "---",
     artUrl |-> "", url |-> NoUrl, lastUpdated |-> NoTime, lastManualUpdate |-> NoTime]

\* the names line 62 lets a candidate replace
GenericNames == {<<"Media", "Player">>, <<"Unknown">>, <<"VLC">>, <<"Chromium">>}

\* ---- maps (JavaScript objects used as maps)
MapHas(f, k) == k \in DOMAIN f
MapGet(f, k, dflt) == IF k \in DOMAIN f THEN f[k] ELSE dflt
MapSet(f, k, v) == [x \in (DOMAIN f) \cup {k} |-> IF x = k THEN v ELSE f[x]]
MapDel(f, k) == [x \in (DOMAIN f) \ {k} |-> f[x]]
EmptyMap == [x \in {} |-> x]

\* the state table keeps its records in insertion order (Object.values)
TableSenders(psm) == {psm[i].sender : i \in 1..Len(psm)}
TableIndex(psm, sender) == CHOOSE i \in 1..Len(psm) : psm[i].sender = sender
TableGet(psm, sender) == psm[TableIndex(psm, sender)]
TableDel(psm, sender) == SelectSeq(psm, LAMBDA r : r.sender # sender)

(***************************************************************************)
(* The selector: sendBestAvailablePlayer (lines 203-277).                  *)
(***************************************************************************)
RecencyMs == 1000
ThrottleMs == 5000

\* the step of the clock between two handlers, longer than RecencyMs
TickMs == 1200

Abs(x) == IF x < 0 THEN -x ELSE x

\* statusWeight[status] || 0
StatusWeight(status) ==
    CASE status = "Playing" -> 3
      [] status = "Paused" -> 2
      [] status = "Stopped" -> 1
      [] OTHER -> 0

GetPriority(p) ==
    IF NameIncludes(p.player, "spotify") THEN 100
    ELSE IF NameIncludes(p.player, "chrome") \/ NameIncludes(p.player, "firefox") THEN 50
    ELSE IF NameIncludes(p.player, "vlc") THEN 10
    ELSE 0

Quality(p) == (IF p.artUrl # "" THEN 2 ELSE 0) + (IF p.album # "---" THEN 1 ELSE 0)

\* a.lastUpdated || 0
TimeOrZero(t) == IF t = NoTime THEN 0 ELSE t

\* a comparator that skips the status step
ComparePlayersNoStatus(a, b) ==
    LET tA == TimeOrZero(a.lastUpdated)
        tB == TimeOrZero(b.lastUpdated)
    IN  IF Abs(tA - tB) > RecencyMs THEN tB - tA
        ELSE IF NameIncludes(a.player, "spotify") # NameIncludes(b.player, "spotify")
        THEN (IF NameIncludes(b.player, "spotify") THEN 1 ELSE -1)
        ELSE 0

\* a comparator that looks at the metadata quality before the brand
ComparePlayersQualityFirst(a, b) ==
    LET sA == StatusWeight(a.status)
        sB == StatusWeight(b.status)
        tA == TimeOrZero(a.lastUpdated)
        tB == TimeOrZero(b.lastUpdated)
    IN  IF sA # sB THEN sB - sA
        ELSE IF Abs(tA - tB) > RecencyMs THEN tB - tA
        ELSE IF Quality(a) # Quality(b) THEN Quality(b) - Quality(a)
        ELSE GetPriority(b) - GetPriority(a)

\* The comparator handed to players.sort (lines 222-251): negative when a is
\* to come before b.
ComparePlayers(a, b) ==
    LET sA == StatusWeight(a.status)
        sB == StatusWeight(b.status)
        tA == TimeOrZero(a.lastUpdated)
        tB == TimeOrZero(b.lastUpdated)
    IN  IF sA # sB THEN sB - sA
        ELSE IF Abs(tA - tB) > RecencyMs THEN tB - tA
        ELSE IF GetPriority(a) # GetPriority(b) THEN GetPriority(b) - GetPriority(a)
        ELSE Quality(b) - Quality(a)

(* Array.prototype.sort as the engine of the build (V8) runs it on a short  *)
(* array: the initial run is found and, when strictly descending, reversed; *)
(* the remaining elements are placed by binary insertion.  With a           *)
(* comparator that is no consistent order the result is what this procedure *)
(* yields.                                                                  *)
RECURSIVE RunEnd(_, _, _)
RunEnd(arr, desc, idx) ==
    IF idx > Len(arr) THEN Len(arr)
    ELSE LET order == ComparePlayers(arr[idx], arr[idx - 1])
         IN  IF (desc /\ order >= 0) \/ (~desc /\ order < 0) THEN idx - 1
             ELSE RunEnd(arr, desc, idx + 1)

Reverse(q) == [i \in 1..Len(q) |-> q[Len(q) + 1 - i]]

RECURSIVE InsertPoint(_, _, _, _)
InsertPoint(arr, pivot, left, right) ==
    IF left >= right THEN left
    ELSE LET mid == left + ((right - left) \div 2)
         IN  IF ComparePlayers(pivot, arr[mid]) < 0
             THEN InsertPoint(arr, pivot, left, mid)
             ELSE InsertPoint(arr, pivot, mid + 1, right)

RECURSIVE BinaryInsertionSort(_, _)
BinaryInsertionSort(arr, start) ==
    IF start > Len(arr) THEN arr
    ELSE LET pivot == arr[start]
             at == InsertPoint(arr, pivot, 1, start)
             placed == SubSeq(arr, 1, at - 1) \o <<pivot>> \o SubSeq(arr, at, start - 1)
                           \o SubSeq(arr, start + 1, Len(arr))
         IN  BinaryInsertionSort(placed, start + 1)

SortPlayers(arr) ==
    IF Len(arr) < 2 THEN arr
    ELSE LET desc == ComparePlayers(arr[2], arr[1]) < 0
             run == RunEnd(arr, desc, 3)
             made == IF desc
                     THEN Reverse(SubSeq(arr, 1, run)) \o SubSeq(arr, run + 1, Len(arr))
                     ELSE arr
         IN  BinaryInsertionSort(made, run + 1)

\* players[0] after the sort
BestPlayer(psm) == SortPlayers(psm)[1]

NoPlayerDetected == <<"No", "Player", "Detected">>

\* the record sent when the table is empty (lines 209-216)
Sentinel ==
    [player |-> NoPlayerDetected, status |-> "Stopped", title |-> "Waiting for Media...",
     artist |-> "---", album |-> "---", artUrl |-> ""]

\* `${displayName} (${n})`
CountWord(n) ==
    CASE n = 2 -> "(2)" [] n = 3 -> "(3)" [] n = 4 -> "(4)" [] OTHER -> "(n)"

\* sendPlayerList (lines 282-307): the list sent on player-list-update
RECURSIVE ListFrom(_, _, _)
ListFrom(raw, nameCounts, active) ==
    IF raw = <<>> THEN <<>>
    ELSE LET p == Head(raw)
             seen == MapGet(nameCounts, p.player, 0)
             displayName == IF seen > 0 THEN Append(p.player, CountWord(seen + 1))
                            ELSE p.player
             entry == [name |-> displayName, sender |-> p.sender, status |-> p.status,
                       isActive |-> p.sender = active]
         IN  <<entry>> \o ListFrom(Tail(raw), MapSet(nameCounts, p.player, seen + 1), active)

PlayerList(psm, active) ==
    ListFrom(SelectSeq(psm, LAMBDA p : p.player # NoPlayer /\ p.player # NoPlayerDetected),
             EmptyMap, active)

\* A call of updatePlayerStateManually runs up to its first await: the
\* getOwner call is under way and nothing else has happened.
NewFetch(name) ==
    [name |-> name, pc |-> "getOwner", owner |-> NoSender, finalName |-> NoPlayer]

\* lines 253-276: the winner best becomes the active player and is sent;
\* a re-query of it is scheduled on a switch, or for a missing title once
\* per ThrottleMs
Announce(st, now, best) ==
    LET hasSwitched == st.active # best.sender
        playerName == MapGet(st.pm, best.sender, NoName)
        lastUpdate == TimeOrZero(best.lastManualUpdate)
        refresh == /\ hasSwitched \/ best.title = "" \/ best.title = "Unknown Title"
                   /\ playerName # NoName
                   /\ hasSwitched \/ now - lastUpdate > ThrottleMs
    IN  [st EXCEPT !.active = best.sender, !.media = best,
                   !.fetches = IF refresh THEN Append(@, NewFetch(playerName)) ELSE @,
                   !.forced = IF refresh THEN playerName ELSE NoName,
                   !.list = PlayerList(st.psm, best.sender)]

\* a selector that leaves activeSenderId alone when the table is empty
SendBestKeepsActive(st, now) ==
    IF st.psm = <<>>
    THEN [st EXCEPT !.media = Sentinel,
                    !.list = PlayerList(st.psm, NoSender), !.forced = NoName]
    ELSE Announce(st, now, BestPlayer(st.psm))

\* sendBestAvailablePlayer (lines 203-277) on state st at time now
SendBestAvailablePlayer(st, now) ==
    IF st.psm = <<>>
    THEN [st EXCEPT !.active = NoSender, !.media = Sentinel,
                    !.list = PlayerList(st.psm, NoSender), !.forced = NoName]
    ELSE Announce(st, now, BestPlayer(st.psm))

(***************************************************************************)
(* The reconciler: updatePlayerState (lines 34-88).                        *)
(***************************************************************************)
MergeKeys == Keys \ {"player"}

\* lines 57-75: the cached identity of the sender's well-known name wins;
\* else a carried name replaces a generic one.
MergedPlayer(state, data, playerName, cache) ==
    IF playerName # NoName /\ MapGet(cache, playerName, NoPlayer) # NoPlayer
    THEN cache[playerName]
    ELSE IF Carried(data, "player") /\ state.player \in GenericNames
    THEN data.player
    ELSE state.player

\* a fallback that takes the empty title alone for unusable
FallbackTitleEmptyOnly(title, url) ==
    IF title = "" /\ url # NoUrl THEN UrlBasename(url) ELSE title

\* lines 77-84
FallbackTitle(title, url) ==
    IF (title = "" \/ title = "Unknown Title") /\ url # NoUrl THEN UrlBasename(url)
    ELSE title

\* a merge that copies every key of the update, carried or not
MergeRecordOverwrites(state, data, playerName, cache, now) ==
    LET merged == [k \in DOMAIN state |-> IF k \in MergeKeys THEN data[k] ELSE state[k]]
    IN  [merged EXCEPT !.player = MergedPlayer(state, data, playerName, cache),
                       !.title = FallbackTitle(merged.title, merged.url),
                       !.lastUpdated = now]

MergeRecord(state, data, playerName, cache, now) ==
    LET merged == [k \in DOMAIN state |->
                      IF k \in MergeKeys /\ Carried(data, k) THEN data[k] ELSE state[k]]
    IN  [merged EXCEPT !.player = MergedPlayer(state, data, playerName, cache),
                       !.title = FallbackTitle(merged.title, merged.url),
                       !.lastUpdated = now]

UpdatePlayerState(st, sender, data, now) ==
    IF sender = NoSender THEN st
    ELSE LET psm0 == IF sender \in TableSenders(st.psm) THEN st.psm
                     ELSE Append(st.psm, NewRecord(sender))
             i == TableIndex(psm0, sender)
             playerName == MapGet(st.pm, sender, NoName)
             rec == MergeRecord(psm0[i], data, playerName, st.cache, now)
         IN  SendBestAvailablePlayer([st EXCEPT !.psm = [psm0 EXCEPT ![i] = rec]], now)

(***************************************************************************)
(* The globals of the signal-driven variant as one value, for the          *)
(* operators above, and back.                                              *)
(***************************************************************************)
St ==
    [pm |-> playerMap, psm |-> playerStateMap, cache |-> playerCache,
     active |-> activeSenderId, fetches |-> fetches, media |-> uiMedia, list |-> uiList,
     forced |-> NoName]

Commit(st) ==
    /\ playerMap' = st.pm
    /\ playerStateMap' = st.psm
    /\ playerCache' = st.cache
    /\ activeSenderId' = st.active
    /\ fetches' = st.fetches
    /\ uiMedia' = st.media
    /\ uiList' = st.list

\* connection ids (unique names) the bus hands out, in order
Conn == <<":1.1", ":1.2", ":1.3">>
Conns == {Conn[i] : i \in 1..Len(Conn)}

(***************************************************************************)
(* SpecMerge: updatePlayerState called twice for one connection id, with   *)
(* update A and then with update B, B carrying a subset of A's fields.     *)
(***************************************************************************)
MergeData ==
    {[sender |-> Conn[1], player |-> p, status |-> s, title |-> t, artist |-> ar,
      album |-> al, artUrl |-> "", url |-> u, lastManualUpdate |-> m] :
        p \in {NoPlayer, <<"Vlc">>, <<"VLC", "media", "player">>},
        s \in {"", "Playing", "Paused"}, t \in {"", "Song"}, ar \in {"", "Artist"},
        al \in {"", "Album"}, u \in {NoUrl, SongUrl}, m \in {NoTime, 0}}

\* a record the table may hold before the two updates
OldRecord ==
    [NewRecord(Conn[1]) EXCEPT !.status = "Stopped", !.title = "Old Song",
                               !.artist = "Old Artist", !.album = "Old Album",
                               !.lastUpdated = 0]

MergeInit ==
    /\ StreamIdle
    /\ UiIdle
    /\ PollIdle
    /\ VolIdle
    /\ playerStateMap \in {<<>>, <<OldRecord>>}
    /\ playerMap \in {EmptyMap, MapSet(EmptyMap, Conn[1], VlcName)}
    /\ playerCache \in {EmptyMap, MapSet(EmptyMap, VlcName, <<"VLC", "media", "player">>)}
    /\ activeSenderId = NoSender
    /\ fetches = <<>>
    /\ clock = 0
    /\ refreshes = <<>>
    /\ bus = [n \in Names |-> IF n = VlcName THEN Conn[1] ELSE NoSender]
    /\ conns = 1
    /\ actual = [n \in Names |-> "Stopped"]
    /\ events = 0
    /\ \E a, b \in MergeData :
          /\ CarriedKeys(b) \subseteq CarriedKeys(a)
          /\ sigQ = <<a, b>>
          /\ lastOp = [op |-> "none", a |-> a, b |-> b, afterA |-> NewRecord(Conn[1])]
    /\ gone = {}
    /\ requeries = [n \in {"org.mpris.MediaPlayer2.vlc", "org.mpris.MediaPlayer2.plasma-browser-integration"} |-> [at |-> -1, prev |-> -1]]

\* updatePlayerState(sender, A)
MergeFirst ==
    /\ Len(sigQ) = 2
    /\ Commit(UpdatePlayerState(St, Conn[1], Head(sigQ), clock))
    /\ sigQ' = Tail(sigQ)
    /\ lastOp' = [lastOp EXCEPT !.op = "first",
                                !.afterA = TableGet(playerStateMap', Conn[1])]
    /\ clock' = clock + TickMs
    /\ UNCHANGED <<volVars, streamVars, pollVars, refreshes, bus, conns, actual, events, gone, requeries>>

\* updatePlayerState(sender, B)
MergeSecond ==
    /\ Len(sigQ) = 1
    /\ Commit(UpdatePlayerState(St, Conn[1], Head(sigQ), clock))
    /\ sigQ' = Tail(sigQ)
    /\ lastOp' = [lastOp EXCEPT !.op = "second"]
    /\ UNCHANGED <<volVars, streamVars, pollVars, clock, refreshes, bus, conns, actual, events, gone, requeries>>

MergeNext == MergeFirst \/ MergeSecond

SpecMerge == MergeInit /\ [][MergeNext]_vars

\* the keys A carries and B does not
KeptKeys == CarriedKeys(lastOp.a) \ CarriedKeys(lastOp.b)

\* C2: additive merge.  After updatePlayerState(sender, A) and then
\* updatePlayerState(sender, B), B carrying a subset of A's fields, every
\* field A set and B does not carry is as the call with A left it, and, the
\* display name and the title (which the call derives) apart, holds A's value.
C2_AdditiveMerge ==
    lastOp.op = "second" =>
        \A k \in KeptKeys :
            /\ TableGet(playerStateMap, Conn[1])[k] = lastOp.afterA[k]
            /\ k \notin {"player", "title"} =>
                  TableGet(playerStateMap, Conn[1])[k] = lastOp.a[k]

\* B has been merged over an A that set the status, the title and the url,
\* B carrying the status alone
C2_Witness ==
    /\ lastOp.op = "second"
    /\ {"title", "url", "album"} \subseteq KeptKeys
    /\ CarriedKeys(lastOp.b) = {"sender", "status"}
    /\ lastOp.b.status # lastOp.a.status
    /\ TableGet(playerStateMap, Conn[1]).status = lastOp.b.status

(***************************************************************************)
(* SpecSel: the selector applied to any state table of up to three         *)
(* records.                                                                *)
(***************************************************************************)
SelStatuses == {"Playing", "Paused", "Stopped"}
SelTimes == {0, 600, 1200}
SelPlayers == {<<"Spotify">>, <<"Chrome">>, <<"Plasma", "Browser", "Integration">>}
SelArt == {[artUrl |-> "", album |-> "---"],
           [artUrl |-> "file:///tmp/cover.png", album |-> "Album"]}

SelRecords(sender) ==
    {[NewRecord(sender) EXCEPT !.status = s, !.lastUpdated = t, !.player = p,
                               !.artUrl = a.artUrl, !.album = a.album, !.title = "Song"] :
        s \in SelStatuses, t \in SelTimes, p \in SelPlayers, a \in SelArt}

\* the tables holding records of the first n of the given connection ids
SelTables(ids) ==
    {<<>>} \cup {<<r1>> : r1 \in SelRecords(ids[1])}
        \cup {<<r1, r2>> : r1 \in SelRecords(ids[1]), r2 \in SelRecords(ids[2])}
        \cup {<<r1, r2, r3>> : r1 \in SelRecords(ids[1]), r2 \in SelRecords(ids[2]),
                               r3 \in SelRecords(ids[3])}

SelInit ==
    /\ StreamIdle
    /\ UiIdle
    /\ EnvIdle
    /\ PollIdle
    /\ VolIdle
    /\ playerStateMap \in SelTables(Conn)
    /\ playerMap = [c \in TableSenders(playerStateMap) |-> VlcName]
    /\ playerCache = <<>>
    /\ activeSenderId \in {NoSender, Conn[1]}
    /\ fetches = <<>>
    /\ clock = 1200

\* one call of sendBestAvailablePlayer
SelDone == uiMedia # Unsent

SelSelect ==
    /\ uiMedia = Unsent
    /\ Commit(SendBestAvailablePlayer(St, clock))
    /\ UNCHANGED <<volVars, streamVars, clock, envVars, pollVars>>

SelNext == SelSelect

SpecSel == SelInit /\ [][SelNext]_vars

MaxWeight(psm) ==
    CHOOSE w \in 0..3 :
        /\ \E i \in 1..Len(psm) : StatusWeight(psm[i].status) = w
        /\ \A i \in 1..Len(psm) : StatusWeight(psm[i].status) <= w

\* C8: status dominates selection.  The record sent on media-update has the
\* highest status weight present in the state table.
C8_StatusDominates ==
    (SelDone /\ playerStateMap # <<>>) =>
        /\ uiMedia \in {playerStateMap[i] : i \in 1..Len(playerStateMap)}
        /\ StatusWeight(uiMedia.status) = MaxWeight(playerStateMap)

\* the case of C8: a Paused record that is newer, of a better brand and of
\* richer metadata than the Playing one that is surfaced
C8_Witness ==
    /\ SelDone
    /\ Len(playerStateMap) = 3
    /\ uiMedia.status = "Playing"
    /\ \E i \in 1..3 :
          /\ playerStateMap[i].status = "Paused"
          /\ playerStateMap[i].lastUpdated > uiMedia.lastUpdated + RecencyMs
          /\ GetPriority(playerStateMap[i]) > GetPriority(uiMedia)
          /\ Quality(playerStateMap[i]) > Quality(uiMedia)

Permutations3 == {<<1, 2, 3>>, <<1, 3, 2>>, <<2, 1, 3>>, <<2, 3, 1>>, <<3, 1, 2>>, <<3, 2, 1>>}

Reorderings(psm) ==
    CASE Len(psm) = 2 -> {psm, <<psm[2], psm[1]>>}
      [] Len(psm) = 3 -> {[i \in 1..3 |-> psm[p[i]]] : p \in Permutations3}
      [] OTHER -> {psm}

\* C9: selector determinism.  The record sent on media-update is the one the
\* selector picks from the same records inserted in any other order, and
\* with any other player active before.
C9_OrderIndependent ==
    SelDone =>
        \A t \in Reorderings(playerStateMap) : \A a \in Conns \cup {NoSender} :
            SendBestAvailablePlayer([St EXCEPT !.psm = t, !.active = a], clock).media = uiMedia

\* the record of a two-record table that was not sent
OtherOfTwo == IF playerStateMap[1] = uiMedia THEN playerStateMap[2] ELSE playerStateMap[1]

\* a table of two records of equal status weight updated within RecencyMs of
\* each other
TieOfTwo ==
    /\ SelDone
    /\ Len(playerStateMap) = 2
    /\ StatusWeight(playerStateMap[1].status) = StatusWeight(playerStateMap[2].status)
    /\ Abs(TimeOrZero(playerStateMap[1].lastUpdated)
             - TimeOrZero(playerStateMap[2].lastUpdated)) <= RecencyMs

\* C11: tie-break order.  Of two records of equal status weight whose
\* lastUpdated differ by at most 1000 ms, the one sent has the higher brand
\* priority, and when the priorities are equal the higher metadata quality.
C11_TieBreakOrder ==
    TieOfTwo =>
        /\ GetPriority(uiMedia) >= GetPriority(OtherOfTwo)
        /\ GetPriority(uiMedia) = GetPriority(OtherOfTwo) =>
              Quality(uiMedia) >= Quality(OtherOfTwo)

\* the brand decides against the newer record of richer metadata
C11_Witness ==
    /\ TieOfTwo
    /\ GetPriority(uiMedia) > GetPriority(OtherOfTwo)
    /\ Quality(uiMedia) < Quality(OtherOfTwo)
    /\ TimeOrZero(uiMedia.lastUpdated) < TimeOrZero(OtherOfTwo.lastUpdated)

\* C12: recency rule.  The record sent is never one that another record of
\* the same status weight is more than 1000 ms newer than.
C12_RecencyRule ==
    (SelDone /\ playerStateMap # <<>>) =>
        ~\E i \in 1..Len(playerStateMap) :
            /\ StatusWeight(playerStateMap[i].status) = StatusWeight(uiMedia.status)
            /\ TimeOrZero(playerStateMap[i].lastUpdated)
                   > TimeOrZero(uiMedia.lastUpdated) + RecencyMs

(***************************************************************************)
(* Spec: the signal-driven variant as a whole.  Handlers run to their next *)
(* await; the bus, the players and the clock move in between.              *)
(*                                                                         *)
(* startMediaMonitor (lines 314-337) first runs one refreshPlayerMap cycle *)
(* and one updatePlayerStateManually per player found, which are the       *)
(* RefreshStart and fetch steps below, then attaches the two dbus-monitor  *)
(* children and the 5000 ms timer.                                         *)
(***************************************************************************)
MaxEvents == 3
MaxQueue == 2
MaxFetch == 1
MaxRefresh == 1
MaxTicks == 1
NameSignal(name, oldOwner, newOwner) ==
    [kind |-> "NameOwnerChanged", name |-> name, oldOwner |-> oldOwner, newOwner |-> newOwner]

PropsSignal(sender, data) == [kind |-> "PropertiesChanged", sender |-> sender, data |-> data]

\* the playback states a player moves between
Statuses == {"Playing", "Paused"}

\* what a GetAll reply carries once parsed (parseDBusBlock, lines 441-480):
\* the status, and the metadata PlayerEnv gives the player
PlayerProps(name) ==
    [NoData EXCEPT !.status = actual[name], !.title = PlayerEnv(name).title,
                   !.url = PlayerEnv(name).url]

\* name.startsWith('org.mpris.MediaPlayer2.') and name.startsWith(':')
IsMprisName(name) == name \in Names
IsUniqueName(name) == name \in Conns

\* ---- the environment
PlayerStart(name) ==
    /\ bus[name] = NoSender
    /\ conns < Len(Conn)
    /\ events < MaxEvents
    /\ events' = events + 1
    /\ Len(sigQ) < MaxQueue
    /\ bus' = [bus EXCEPT ![name] = Conn[conns + 1]]
    /\ conns' = conns + 1
    /\ \E status \in Statuses : actual' = [actual EXCEPT ![name] = status]
    /\ sigQ' = Append(sigQ, NameSignal(name, "", Conn[conns + 1]))
    /\ UNCHANGED <<sigVars, uiVars, refreshes, lastOp, gone, requeries>>

\* the connection drops: the bus reports the name, then the unique name
PlayerExit(name) ==
    /\ bus[name] # NoSender
    /\ events < MaxEvents
    /\ events' = events + 1
    /\ Len(sigQ) + 2 <= MaxQueue
    /\ bus' = [bus EXCEPT ![name] = NoSender]
    /\ sigQ' = sigQ \o <<NameSignal(name, bus[name], ""), NameSignal(bus[name], bus[name], "")>>
    /\ UNCHANGED <<sigVars, uiVars, refreshes, conns, actual, lastOp, gone, requeries>>

PlayerChange(name) ==
    /\ bus[name] # NoSender
    /\ events < MaxEvents
    /\ events' = events + 1
    /\ Len(sigQ) < MaxQueue
    /\ \E status \in Statuses \ {actual[name]} :
          /\ actual' = [actual EXCEPT ![name] = status]
          /\ sigQ' = Append(sigQ, PropsSignal(bus[name],
                          [NoData EXCEPT !.sender = bus[name], !.status = status]))
    /\ UNCHANGED <<sigVars, uiVars, refreshes, bus, conns, lastOp, gone, requeries>>

Tick ==
    /\ clock < StartMs + MaxTicks * TickMs
    /\ clock' = clock + TickMs
    /\ UNCHANGED <<playerMap, playerStateMap, playerCache, activeSenderId, fetches,
                   uiVars, envVars>>

\* ---- processSignalBlock (lines 387-438)
\* a removal that forgets the state table
RemovePlayerKeepsRecord(st, sender, now) ==
    SendBestAvailablePlayer(
        [st EXCEPT !.pm = MapDel(@, sender),
                   !.active = IF @ = sender THEN NoSender ELSE @], now)

\* a removal that sends nothing to the display
RemovePlayerSilent(st, sender, now) ==
    [st EXCEPT !.pm = MapDel(@, sender), !.psm = TableDel(@, sender),
               !.active = IF @ = sender THEN NoSender ELSE @]

\* lines 399-402 and 413-416
RemovePlayer(st, sender, now) ==
    SendBestAvailablePlayer(
        [st EXCEPT !.pm = MapDel(@, sender), !.psm = TableDel(@, sender),
                   !.active = IF @ = sender THEN NoSender ELSE @], now)

ProcessSignalBlock(st, block, now) ==
    IF block.kind = "NameOwnerChanged"
    THEN IF IsMprisName(block.name)
         THEN IF block.newOwner = ""
              THEN RemovePlayer(st, block.oldOwner, now)
              ELSE [st EXCEPT !.pm = MapSet(@, block.newOwner, block.name),
                              !.fetches = Append(@, NewFetch(block.name))]
         ELSE IF IsUniqueName(block.name) /\ block.newOwner = ""
                 /\ MapHas(st.pm, block.name)
              THEN RemovePlayer(st, block.name, now)
              ELSE st
    ELSE IF ~MapHas(st.pm, block.sender) THEN st
    ELSE UpdatePlayerState(st, block.sender,
             [block.data EXCEPT !.player = BeautifyPlayerName(st.pm[block.sender])], now)

\* what the handling of a block is, for the history
SignalOp(st, block) ==
    IF block.kind = "NameOwnerChanged"
    THEN IF block.newOwner = "" /\ (IsMprisName(block.name) \/ IsUniqueName(block.name))
         THEN [op |-> "ownerLost", byName |-> IsMprisName(block.name),
               sender |-> IF IsMprisName(block.name) THEN block.oldOwner ELSE block.name,
               wasActive |-> st.active = (IF IsMprisName(block.name) THEN block.oldOwner
                                          ELSE block.name)]
         ELSE [op |-> "other"]
    ELSE IF MapHas(st.pm, block.sender)
         THEN [op |-> "update", sender |-> block.sender]
         ELSE [op |-> "other"]

GoneAfter(op) == IF op.op = "ownerLost" THEN gone \cup {op.sender} ELSE gone

\* the history of the re-queries of line 269, after a handler that scheduled
\* one for the named player (or none)
Requeried(name, now) ==
    IF name = NoName THEN requeries
    ELSE [requeries EXCEPT ![name] = [at |-> now, prev |-> @.at]]

\* the globals take the values of st, unless st holds more suspended
\* updatePlayerStateManually calls than the model follows (room)
HandledIn(room, st, op) ==
    /\ Len(st.fetches) <= room
    /\ Commit(st)
    /\ lastOp' = op
    /\ gone' = GoneAfter(op)
    /\ requeries' = Requeried(st.forced, clock)

Handled(st, op) == HandledIn(MaxFetch, st, op)

ProcessSignalIn(room) ==
    /\ sigQ # <<>>
    /\ HandledIn(room, ProcessSignalBlock(St, Head(sigQ), clock), SignalOp(St, Head(sigQ)))
    /\ sigQ' = Tail(sigQ)
    /\ UNCHANGED <<clock, refreshes, bus, conns, actual, events>>

ProcessSignal == ProcessSignalIn(MaxFetch)

\* ---- updatePlayerStateManually (lines 497-596), one step per await
RemoveAt(q, i) == SubSeq(q, 1, i - 1) \o SubSeq(q, i + 1, Len(q))

\* the words of a well-known name, as they stand
RECURSIVE RawWords(_)
RawWords(segs) == IF segs = <<>> THEN <<>> ELSE Head(segs) \o RawWords(Tail(segs))

\* line 533: identity || beautified || "Unknown Player"
BaseName(name, identity) ==
    LET beautified == BeautifyPlayerName(name)
    IN  IF identity # NoPlayer THEN identity
        ELSE IF beautified # NoPlayer THEN beautified
        ELSE <<"Unknown", "Player">>

\* lines 535-543: the well-known name, the desktop entry and the command line
CheckStrings(name, desktopEntry, cmdline) ==
    RawWords(NameSegments(name)) \o desktopEntry \o cmdline

\* lines 532-551: the name stored in the identity cache
ResolveName(name, identity, desktopEntry, cmdline) ==
    LET base == BaseName(name, identity)
        combined == CheckStrings(name, desktopEntry, cmdline)
    IN  IF NameIncludes(combined, "beta") /\ ~NameIncludes(base, "beta")
        THEN Append(base, "Beta")
        ELSE IF NameIncludes(combined, "dev") /\ ~NameIncludes(base, "dev")
        THEN Append(base, "Dev")
        ELSE IF NameIncludes(combined, "canary") /\ ~NameIncludes(base, "canary")
        THEN Append(base, "Canary")
        ELSE base

\* a connection is alive while it owns a name
Alive(conn) == \E n \in Names : bus[n] = conn

\* getOwner resolves (lines 499-503)
FetchOwner(i) ==
    /\ fetches[i].pc = "getOwner"
    /\ LET f == fetches[i]
           owner == bus[f.name]
           cached == MapGet(playerCache, f.name, NoPlayer)
       IN  fetches' =
               IF owner = NoSender THEN RemoveAt(fetches, i)
               ELSE [fetches EXCEPT ![i] =
                        IF cached # NoPlayer
                        THEN [f EXCEPT !.pc = "getAll", !.owner = owner, !.finalName = cached]
                        ELSE [f EXCEPT !.pc = "identify", !.owner = owner]]
    /\ UNCHANGED <<playerMap, playerStateMap, playerCache, activeSenderId, clock, uiVars,
                   envVars>>

\* Identity, DesktopEntry and the process id have been read (lines 509-554)
FetchIdentify(i) ==
    /\ fetches[i].pc = "identify"
    /\    LET f == fetches[i]
              env == PlayerEnv(f.name)
              owned == bus[f.name] # NoSender
              finalName ==
                  ResolveName(f.name,
                              IF owned THEN env.identity ELSE NoPlayer,
                              IF owned THEN env.desktopEntry ELSE <<>>,
                              IF Alive(f.owner) THEN env.cmdline ELSE <<>>)
          IN  /\ playerCache' = MapSet(playerCache, f.name, finalName)
              /\ fetches' = [fetches EXCEPT ![i] =
                                [f EXCEPT !.pc = "getAll", !.finalName = finalName]]
    /\ UNCHANGED <<playerMap, playerStateMap, activeSenderId, clock, uiVars, envVars>>

\* GetAll has answered (lines 557-578)
FetchGetAllIn(room, i) ==
    /\ fetches[i].pc = "getAll"
    /\    LET f == fetches[i]
              reply == IF bus[f.name] # NoSender THEN PlayerProps(f.name) ELSE NoData
              data == [reply EXCEPT !.sender = f.owner, !.player = f.finalName,
                                    !.lastManualUpdate = clock]
              op == [op |-> "update", sender |-> f.owner]
          IN  HandledIn(room, UpdatePlayerState([St EXCEPT !.fetches = RemoveAt(@, i)],
                                                f.owner, data, clock), op)
    /\ UNCHANGED <<clock, refreshes, bus, conns, actual, events, sigQ>>

FetchGetAll(i) == FetchGetAllIn(MaxFetch, i)

\* ---- refreshPlayerMap (lines 155-197), one step per await
NameOrder == <<VlcName, PbiName>>

\* the names a ListNames reply holds
Listing == SelectSeq(NameOrder, LAMBDA n : bus[n] # NoSender)

RECURSIVE SpawnFetches(_, _, _)
SpawnFetches(names, pm, psm) ==
    IF names = <<>> THEN <<>>
    ELSE (IF \E o \in DOMAIN pm : pm[o] = Head(names) /\ o \notin TableSenders(psm)
          THEN <<NewFetch(Head(names))>> ELSE <<>>) \o SpawnFetches(Tail(names), pm, psm)

\* a refresh that starts no fetch for the players it discovers
RefreshFinishNoSync(st, newMap, now) ==
    SendBestAvailablePlayer(
        [st EXCEPT !.pm = newMap,
                   !.psm = SelectSeq(@, LAMBDA r : r.sender \in DOMAIN newMap)], now)

\* lines 173-193: the map is replaced, new players are fetched, records of
\* ids not in the map are purged, and the selection is sent
RefreshFinish(st, newMap, now) ==
    SendBestAvailablePlayer(
        [st EXCEPT !.pm = newMap,
                   !.fetches = @ \o SpawnFetches(NameOrder, newMap, st.psm),
                   !.psm = SelectSeq(@, LAMBDA r : r.sender \in DOMAIN newMap)], now)

RefreshStart ==
    /\ Len(refreshes) < MaxRefresh
    /\ refreshes' = Append(refreshes, [pc |-> "list", names |-> <<>>, newMap |-> EmptyMap])
    /\ UNCHANGED <<sigVars, uiVars, bus, conns, actual, events, sigQ, lastOp, gone, requeries>>

\* the ListNames child closes (line 163); a failed call (ok false) closes
\* with no output
RefreshListedIn(room, i, ok) ==
    /\ refreshes[i].pc = "list"
    /\ LET names == IF ok THEN Listing ELSE <<>>
       IN  IF names = <<>>
           THEN /\ HandledIn(room, RefreshFinish(St, EmptyMap, clock),
                             [op |-> "refresh", listed |-> ok])
                /\ refreshes' = RemoveAt(refreshes, i)
           ELSE /\ refreshes' = [refreshes EXCEPT ![i] =
                                    [pc |-> "owners", names |-> names, newMap |-> EmptyMap]]
                /\ UNCHANGED <<playerMap, playerStateMap, playerCache, activeSenderId,
                               fetches, uiVars, lastOp, gone, requeries>>
    /\ UNCHANGED <<clock, bus, conns, actual, events, sigQ>>

RefreshList(i) == \E ok \in BOOLEAN : RefreshListedIn(MaxFetch, i, ok)

\* a getOwner of the cycle resolves (lines 167-172)
RefreshOwnerIn(room, i) ==
    /\ refreshes[i].pc = "owners"
    /\ LET r == refreshes[i]
           name == Head(r.names)
           newMap == IF bus[name] # NoSender THEN MapSet(r.newMap, bus[name], name)
                     ELSE r.newMap
       IN  IF Tail(r.names) = <<>>
           THEN /\ HandledIn(room, RefreshFinish(St, newMap, clock),
                             [op |-> "refresh", listed |-> TRUE])
                /\ refreshes' = RemoveAt(refreshes, i)
           ELSE /\ refreshes' = [refreshes EXCEPT ![i] =
                                    [r EXCEPT !.names = Tail(r.names), !.newMap = newMap]]
                /\ UNCHANGED <<playerMap, playerStateMap, playerCache, activeSenderId,
                               fetches, uiVars, lastOp, gone, requeries>>
    /\ UNCHANGED <<clock, bus, conns, actual, events, sigQ>>

RefreshOwner(i) == RefreshOwnerIn(MaxFetch, i)

Init ==
    /\ StreamIdle
    /\ SignalIdle
    /\ UiIdle
    /\ EnvIdle
    /\ PollIdle
    /\ VolIdle

Next ==
    /\ \/ \E name \in Names : PlayerStart(name)
       \/ \E name \in Names : PlayerExit(name)
       \/ \E name \in Names : PlayerChange(name)
       \/ Tick
       \/ ProcessSignal
       \/ \E i \in 1..Len(fetches) : FetchOwner(i)
       \/ \E i \in 1..Len(fetches) : FetchIdentify(i)
       \/ \E i \in 1..Len(fetches) : FetchGetAll(i)
       \/ RefreshStart
       \/ \E i \in 1..Len(refreshes) : RefreshList(i)
       \/ \E i \in 1..Len(refreshes) : RefreshOwner(i)
    /\ UNCHANGED <<volVars, streamVars, pollVars>>

Spec == Init /\ [][Next]_vars

\* the block handled last reported that a well-known name lost its owner
OwnerLossHandled == lastOp.op = "ownerLost" /\ lastOp.byName

\* C3: removal on owner loss.  Once a NameOwnerChanged block for an
\* org.mpris.MediaPlayer2.* name with an empty new owner has been processed,
\* the state table holds no record keyed by the old owner, and if that
\* record was the active selection the media-update that followed carries
\* the no-player sentinel or another player's record.
C3_RemovalOnOwnerLoss ==
    OwnerLossHandled =>
        /\ lastOp.sender \notin TableSenders(playerStateMap)
        /\ lastOp.wasActive => (uiMedia = Sentinel \/ uiMedia.sender # lastOp.sender)

\* the active player's name was dropped and another player took over
C3_Witness ==
    /\ OwnerLossHandled
    /\ lastOp.wasActive
    /\ uiMedia # Sentinel
    /\ uiMedia.sender # lastOp.sender

\* C4: in every reachable state the state table holds at most one record per
\* connection id and no record for a connection id whose owner-loss event
\* has been processed; a fetch that was in flight does not undo the removal.
C4_NoRecordAfterOwnerLoss ==
    /\ \A i, j \in 1..Len(playerStateMap) :
           playerStateMap[i].sender = playerStateMap[j].sender => i = j
    /\ \A sender \in gone : sender \notin TableSenders(playerStateMap)

\* a ListNames call that failed has just closed its refreshPlayerMap cycle
ListingFailed ==
    /\ Len(refreshes') < Len(refreshes)
    /\ lastOp' = [op |-> "refresh", listed |-> FALSE]

\* C5: a failed bus name listing preserves the last known state: no tracked
\* record is removed, the active selection is not cleared and no no-player
\* sentinel is sent because of it.
C5_ListingFailurePreserves ==
    [][ListingFailed =>
          /\ TableSenders(playerStateMap') = TableSenders(playerStateMap)
          /\ activeSenderId' = activeSenderId
          /\ playerStateMap # <<>> => uiMedia' # Sentinel]_vars

\* a name is specific when line 62 does not list it as replaceable
IsSpecific(player) == player \notin GenericNames

\* C7: display-name monotonicity.  Once a record's player field holds a
\* specific name, no later update of that record puts a generic name in its
\* place.
C7_NameMonotone ==
    [][\A i \in 1..Len(playerStateMap) : \A j \in 1..Len(playerStateMap') :
          (playerStateMap[i].sender = playerStateMap'[j].sender
           /\ IsSpecific(playerStateMap[i].player))
          => IsSpecific(playerStateMap'[j].player)]_vars

\* C10: zero players.  Whenever the selection has run with an empty state
\* table, media-update carried the sentinel with the placeholder title and
\* an empty artist, and player-list-update carried an empty list.
C10_ZeroPlayers ==
    (playerStateMap = <<>> /\ uiMedia # Unsent) =>
        /\ uiMedia.title = "Waiting for Media..."
        /\ uiMedia.artist = ""
        /\ uiList = <<>>

\* C13: refresh throttle.  For each player, two re-queries scheduled by
\* sendBestAvailablePlayer are never less than 5 seconds apart, whether the
\* selection switched or an earlier re-query is still in flight.
C13_RefreshThrottle ==
    \A name \in Names :
        requeries[name].prev # NoTime =>
            requeries[name].at - requeries[name].prev >= ThrottleMs

\* C14: every record of the state table has a status at all times: Stopped
\* when it was created without a status read, and an update that carries no
\* status leaves the one it has.
C14_StatusNeverNull ==
    \A i \in 1..Len(playerStateMap) :
        playerStateMap[i].status \in {"Playing", "Paused", "Stopped"}

\* a record created by a fetch whose GetAll read failed, the player being
\* gone: it has had no status read
C14_Witness ==
    \E i \in 1..Len(playerStateMap) :
        /\ playerStateMap[i].sender \in gone
        /\ playerStateMap[i].status = "Stopped"
        /\ playerStateMap[i].lastManualUpdate # NoTime

(***************************************************************************)
(* The busctl polling variant (media-service.js:705-1007).  A pollLoop     *)
(* call runs to its next await: the Promise.all of the volume read and the *)
(* name listing (line 846), then one getPlayerMetadata per listed name     *)
(* (line 889).  Nothing keeps a second call from starting meanwhile.       *)
(***************************************************************************)
MaxCycles == 2
MaxTimers == 1
MaxPollEvents == 2

\* null for a volume
NoVol == NoTime

\* what amixer reports (line 835)
MixerVol == 62

\* the words of a segment joined by the hyphens that split them
RECURSIVE JoinHyphen(_)
JoinHyphen(seg) ==
    IF Len(seg) = 1 THEN Head(seg) ELSE Head(seg) \o "-" \o JoinHyphen(Tail(seg))

\* beautifyName (lines 731-738)
BeautifyName(name) ==
    LET segs == NameSegments(name)
        words == RawWords(segs)
    IN  IF NameIncludes(words, "spotify") THEN <<"Spotify">>
        ELSE IF NameIncludes(words, "vlc") THEN <<"VLC">>
        ELSE IF NameIncludes(words, "firefox") THEN <<"Firefox">>
        ELSE IF \E i \in 1..Len(words) : words[i] \in {"chromium", "chrome"} THEN <<"Chrome">>
        ELSE IF segs = <<>> THEN <<"Player">>
        ELSE <<JoinHyphen(segs[Len(segs)])>>

\* getPlayerMetadata (lines 778-828) when the GetAll call succeeds
PlayerMetadata(fullName) ==
    LET env == PlayerEnv(fullName)
        fallback == env.title = "" /\ env.url # NoUrl
        title == IF ~fallback THEN env.title
                 ELSE IF Malformed(env.url) THEN "Unknown File"
                 ELSE UrlBasename(env.url)
        artist == IF fallback /\ ~Malformed(env.url) THEN "Local Media" ELSE "Unknown Artist"
    IN  [player |-> BeautifyName(fullName),
         title |-> IF title = "" THEN "Unknown Title" ELSE title,
         artist |-> artist, album |-> "", artUrl |-> "",
         status |-> IF actual[fullName] = "" THEN "Stopped" ELSE actual[fullName],
         rawName |-> fullName]

\* null for a candidate
NoCandidate == [rawName |-> NoName]

\* the record sent when the listing is empty (lines 869-874)
PollSentinel ==
    [player |-> <<"No", "Player">>, title |-> "No Media Playing", artist |-> "",
     status |-> "Stopped"]

\* a pollLoop call at its first await
NewCycle(force) ==
    [pc |-> "listing", force |-> force, players |-> <<>>, allPlayerStates |-> <<>>,
     bestCandidate |-> NoCandidate, activeStillExists |-> FALSE]

StartCycle(force) ==
    /\ Len(cycles) < MaxCycles
    /\ cycles' = Append(cycles, NewCycle(force))

PollFrame == UNCHANGED <<volVars, streamVars, sigVars, refreshes, conns, sigQ, lastOp, gone, requeries>>

\* ---- the players, seen from the polling variant
PollPlayerStart(name) ==
    /\ bus[name] = NoSender
    /\ conns < Len(Conn)
    /\ events < MaxPollEvents
    /\ events' = events + 1
    /\ bus' = [bus EXCEPT ![name] = Conn[conns + 1]]
    /\ conns' = conns + 1
    /\ \E status \in Statuses : actual' = [actual EXCEPT ![name] = status]
    /\ UNCHANGED <<volVars, streamVars, sigVars, uiVars, pollVars, refreshes, sigQ, lastOp, gone, requeries>>

PollPlayerExit(name) ==
    /\ bus[name] # NoSender
    /\ events < MaxPollEvents
    /\ events' = events + 1
    /\ bus' = [bus EXCEPT ![name] = NoSender]
    /\ UNCHANGED <<volVars, streamVars, sigVars, uiVars, pollVars, refreshes, conns, actual, sigQ,
                   lastOp, gone, requeries>>

PollPlayerChange(name) ==
    /\ bus[name] # NoSender
    /\ events < MaxPollEvents
    /\ events' = events + 1
    /\ \E status \in Statuses \ {actual[name]} : actual' = [actual EXCEPT ![name] = status]
    /\ UNCHANGED <<volVars, streamVars, sigVars, uiVars, pollVars, refreshes, bus, conns, sigQ,
                   lastOp, gone, requeries>>

\* ---- what starts a pollLoop call
\* startMediaMonitor (lines 989-995)
PollStartMediaMonitor ==
    /\ ~pollInterval
    /\ pollInterval' = TRUE
    /\ StartCycle(FALSE)
    /\ UNCHANGED <<activePlayerName, lastKnownState, lastSysVol, lastPlayerListStr, timers,
                   uiVolume, uiVars, bus, actual, events>>
    /\ PollFrame

\* the interval timer of line 994 fires
IntervalFire ==
    /\ pollInterval
    /\ StartCycle(FALSE)
    /\ UNCHANGED <<activePlayerName, lastKnownState, lastSysVol, lastPlayerListStr,
                   pollInterval, timers, uiVolume, uiVars, bus, actual, events>>
    /\ PollFrame

\* a timer of line 971 fires: pollLoop is called with no argument
TimeoutFire ==
    /\ timers > 0
    /\ timers' = timers - 1
    /\ StartCycle(FALSE)
    /\ UNCHANGED <<activePlayerName, lastKnownState, lastSysVol, lastPlayerListStr,
                   pollInterval, uiVolume, uiVars, bus, actual, events>>
    /\ PollFrame

\* refreshUI (lines 997-999)
RefreshUI ==
    /\ StartCycle(TRUE)
    /\ UNCHANGED <<activePlayerName, lastKnownState, lastSysVol, lastPlayerListStr,
                   pollInterval, timers, uiVolume, uiVars, bus, actual, events>>
    /\ PollFrame

\* the ids the display can name in a command: those of the list it shows
ListedIds == {uiList[k].sender : k \in {j \in 1..Len(uiList) : uiList[j] # Unsent}}

\* simpleControl (lines 958-972); the bus call it issues (line 968) is not
\* awaited and is kept in lastOp with the name it is sent to
SimpleControl(targetId) ==
    /\ (IF targetId # NoName THEN targetId ELSE activePlayerName) # NoName
    /\ timers < MaxTimers
    /\ activePlayerName' = IF targetId # NoName THEN targetId ELSE activePlayerName
    /\ lastOp' = [op |-> "control",
                  dest |-> IF targetId # NoName THEN targetId ELSE activePlayerName]
    /\ timers' = timers + 1
    /\ UNCHANGED <<lastKnownState, lastSysVol, lastPlayerListStr, pollInterval, cycles,
                   uiVolume, uiVars, bus, actual, events>>
    /\ UNCHANGED <<volVars, streamVars, sigVars, refreshes, conns, sigQ, gone, requeries>>

\* ---- pollLoop (lines 843-948)
\* lines 852-855
VolumeSync(sysVol, force) ==
    IF sysVol # NoVol /\ (sysVol # lastSysVol \/ force)
    THEN uiVolume' = sysVol /\ lastSysVol' = sysVol
    ELSE UNCHANGED <<uiVolume, lastSysVol>>

\* The Promise.all of line 846 resolves.  getSystemVolume gives null when
\* amixer fails; getRunningPlayers gives [] when busctl fails (line 763).
PollListed(i) ==
    /\ cycles[i].pc = "listing"
    /\ \E sysVol \in {NoVol, MixerVol}, ok \in BOOLEAN :
          LET players == IF ok THEN Listing ELSE <<>>
          IN  /\ VolumeSync(sysVol, cycles[i].force)
              /\ IF players = <<>>
                 THEN /\ activePlayerName' = NoName
                      /\ uiMedia' = PollSentinel
                      /\ cycles' = RemoveAt(cycles, i)
                 ELSE /\ cycles' = [cycles EXCEPT ![i].pc = "metadata",
                                                  ![i].players = players]
                      /\ UNCHANGED <<activePlayerName, uiMedia>>
    /\ UNCHANGED <<lastKnownState, lastPlayerListStr, pollInterval, timers, uiList, bus,
                   actual, events>>
    /\ PollFrame

\* a loop body in which the first Playing player listed wins
LoopBodyFirstPlaying(c, data) ==
    IF data = NoCandidate THEN [c EXCEPT !.players = Tail(@)]
    ELSE [c EXCEPT
            !.players = Tail(@),
            !.allPlayerStates = Append(@, data),
            !.activeStillExists = @ \/ data.rawName = activePlayerName,
            !.bestCandidate =
                IF data.status # "Playing" THEN @
                ELSE IF @ = NoCandidate THEN data
                ELSE @]

\* the body of the loop of lines 888-908 for one player; data is
\* NoCandidate when getPlayerMetadata gave null
LoopBody(c, data) ==
    IF data = NoCandidate THEN [c EXCEPT !.players = Tail(@)]
    ELSE [c EXCEPT
            !.players = Tail(@),
            !.allPlayerStates = Append(@, data),
            !.activeStillExists = @ \/ data.rawName = activePlayerName,
            !.bestCandidate =
                IF data.status # "Playing" THEN @
                ELSE IF @ = NoCandidate THEN data
                ELSE IF @.status # "Playing" THEN data
                ELSE IF data.rawName = activePlayerName THEN data
                ELSE @]

\* allPlayerStates.find(p => p.rawName === activePlayerName)
FindActive(all) ==
    IF \E k \in 1..Len(all) : all[k].rawName = activePlayerName
    THEN all[CHOOSE k \in 1..Len(all) :
                /\ all[k].rawName = activePlayerName
                /\ \A j \in 1..(k - 1) : all[j].rawName # activePlayerName]
    ELSE NoCandidate

\* lines 911-917
ChooseCandidate(c) ==
    IF c.bestCandidate # NoCandidate THEN c.bestCandidate
    ELSE IF c.activeStillExists THEN FindActive(c.allPlayerStates)
    ELSE IF c.allPlayerStates # <<>> THEN c.allPlayerStates[1]
    ELSE NoCandidate

\* lines 920-926
PlayerListPayload(all, best) ==
    [k \in 1..Len(all) |->
        [id |-> all[k].rawName, sender |-> all[k].rawName, name |-> all[k].player,
         status |-> all[k].status,
         isActive |-> best # NoCandidate /\ all[k].rawName = best.rawName]]

\* lines 911-943, after the last getPlayerMetadata of the call
PollFinish(c) ==
    LET best == ChooseCandidate(c)
        payload == PlayerListPayload(c.allPlayerStates, best)
    IN  /\ IF payload # lastPlayerListStr \/ c.force
           THEN uiList' = payload /\ lastPlayerListStr' = payload
           ELSE UNCHANGED <<uiList, lastPlayerListStr>>
        /\ IF best = NoCandidate
           THEN UNCHANGED <<activePlayerName, uiMedia, lastKnownState>>
           ELSE /\ activePlayerName' = best.rawName
                /\ IF best # lastKnownState \/ c.force
                   THEN uiMedia' = best /\ lastKnownState' = best
                   ELSE UNCHANGED <<uiMedia, lastKnownState>>

\* a getPlayerMetadata call of line 889 resolves, with null when busctl fails
PollMeta(i) ==
    /\ cycles[i].pc = "metadata"
    /\ \E ok \in {bus[Head(cycles[i].players)] # NoSender, FALSE} :
          LET data == IF ok THEN PlayerMetadata(Head(cycles[i].players)) ELSE NoCandidate
              c == LoopBody(cycles[i], data)
          IN  IF c.players # <<>>
              THEN /\ cycles' = [cycles EXCEPT ![i] = c]
                   /\ UNCHANGED <<activePlayerName, lastKnownState, lastPlayerListStr, uiVars>>
              ELSE /\ cycles' = RemoveAt(cycles, i)
                   /\ PollFinish(c)
    /\ UNCHANGED <<lastSysVol, pollInterval, timers, uiVolume, bus, actual, events>>
    /\ PollFrame

PollInit ==
    /\ StreamIdle
    /\ SignalIdle
    /\ UiIdle
    /\ EnvIdle
    /\ PollIdle
    /\ VolIdle

PollNext ==
    \/ \E name \in Names : PollPlayerStart(name)
    \/ \E name \in Names : PollPlayerExit(name)
    \/ \E name \in Names : PollPlayerChange(name)
    \/ PollStartMediaMonitor
    \/ IntervalFire
    \/ TimeoutFire
    \/ RefreshUI
    \/ \E targetId \in ListedIds \cup {NoName} : SimpleControl(targetId)
    \/ \E i \in 1..Len(cycles) : PollListed(i)
    \/ \E i \in 1..Len(cycles) : PollMeta(i)

SpecPoll == PollInit /\ [][PollNext]_vars

\* C6: poll cycles never overlap.  While a pollLoop call is suspended at a
\* bus call, no timer and no refreshUI starts a second call beside it.
C6_CyclesNeverOverlap == Len(cycles) <= 1

\* the well-known name of the player a media-update carries, if any
MediaName(media) ==
    IF media = Unsent \/ media = PollSentinel THEN NoName ELSE media.rawName

\* C15: at most one active player.  Every player-list-update has at most one
\* entry with isActive true, and that entry is the one of the player that
\* the most recent media-update carries.
C15_OneActivePlayer ==
    [][uiList' # uiList =>
          /\ \A j, k \in 1..Len(uiList') :
                (uiList'[j].isActive /\ uiList'[k].isActive) => j = k
          /\ \A k \in 1..Len(uiList') :
                uiList'[k].isActive => uiList'[k].sender = MediaName(uiMedia')]_vars

\* a step of simpleControl that went past its early return
ControlDispatched == timers' = timers + 1

\* C16: command dispatch does not change the aggregator's state: a command,
\* with or without a target id, leaves the active selection and the last
\* known state as they are.
C16_CommandsKeepSelection ==
    [][ControlDispatched =>
          /\ activePlayerName' = activePlayerName
          /\ lastKnownState' = lastKnownState]_vars

\* C17: a command whose target is no player on the bus any more issues no
\* bus call and leaves the active selection as it is.
C17_NoCallToMissingPlayer ==
    [][(ControlDispatched /\ bus[lastOp'.dest] = NoSender) =>
          /\ lastOp' = lastOp
          /\ activePlayerName' = activePlayerName]_vars

(***************************************************************************)
(* System volume.  Both variants set the volume by starting an amixer      *)
(* process they do not wait for (lines 682-686 and 979-985) and read it by *)
(* matching the first [N%] of amixer's output (lines 669-680 and 830-841). *)
(* SpecVolume runs the two setters, the amixer processes they start, the   *)
(* user's mute key and the reader against one mixer.                       *)
(***************************************************************************)
MaxAmixer == 2
MaxMixerOps == 3

\* the values a caller hands to setSystemVolume
VolInputs == {-5, 0, 40, 150}

\* Math.max(0, Math.min(100, val)) (line 980)
ClampVolume(val) == IF val < 0 THEN 0 ELSE IF val > 100 THEN 100 ELSE val

\* the argument list of line 685 without its last word
SetArgsNoUnmute(val) == [device |-> "default", percent |-> val, unmute |-> FALSE, val |-> val]

\* ['sset', 'Master', `${val}%`, 'unmute'] (line 685); val is the argument
\* of the call, kept with the process it started
SetArgs(val) == [device |-> "default", percent |-> val, unmute |-> TRUE, val |-> val]

\* `amixer -D pulse sset Master ${vol}% unmute` (lines 980-984)
PollSetArgs(val) ==
    [device |-> "pulse", percent |-> ClampVolume(val), unmute |-> TRUE, val |-> val]

\* setSystemVolume of the signal-driven variant (lines 682-686)
SetSystemVolume(val) ==
    /\ Len(amixerCalls) < MaxAmixer
    /\ amixerCalls' = Append(amixerCalls, SetArgs(val))
    /\ UNCHANGED <<mixer, mixerLog>>

\* setSystemVolume of the polling variant (lines 979-985)
PollSetSystemVolume(val) ==
    /\ Len(amixerCalls) < MaxAmixer
    /\ amixerCalls' = Append(amixerCalls, PollSetArgs(val))
    /\ UNCHANGED <<mixer, mixerLog>>

\* what `sset Master N% [unmute]` does to the control when amixer accepts
\* it: the percentage is brought into the control's range, the switch is
\* turned on if asked
MixerAfter(call) ==
    [vol |-> ClampVolume(call.percent),
     muted |-> IF call.unmute THEN FALSE ELSE mixer.muted]

\* One of the spawned amixer processes runs; the processes are not ordered.
\* A percentage outside the control's range is either refused (the mixer
\* is left alone) or brought into range.
AmixerRun(i) ==
    /\ i \in 1..Len(amixerCalls)
    /\ Len(mixerLog) < MaxMixerOps
    /\ \E accepted \in IF amixerCalls[i].percent \in 0..100 THEN {TRUE} ELSE BOOLEAN :
          /\ mixer' = IF accepted THEN MixerAfter(amixerCalls[i]) ELSE mixer
          /\ mixerLog' = Append(mixerLog, [op |-> "sset", call |-> amixerCalls[i],
                                           accepted |-> accepted, mixer |-> mixer'])
    /\ amixerCalls' = RemoveAt(amixerCalls, i)

\* the user mutes the Master control (the case the comment of line 684 names)
Mute ==
    /\ ~mixer.muted
    /\ Len(mixerLog) < MaxMixerOps
    /\ mixer' = [mixer EXCEPT !.muted = TRUE]
    /\ mixerLog' = Append(mixerLog, [op |-> "mute", mixer |-> mixer'])
    /\ UNCHANGED amixerCalls

\* the line amixer sget prints for the control: "[62%] [on]"
NoOutput == [percent |-> NoVol, on |-> FALSE]
SgetOutput == [percent |-> mixer.vol, on |-> ~mixer.muted]

\* stdout.match(/\[(\d+)%\]/), then match ? parseInt(match[1]) : null
\* (lines 675-676, 836-840)
ParseVolume(output) == IF output = NoOutput THEN NoVol ELSE output.percent

\* getSystemVolume (lines 669-680, 830-841); amixer may fail and print nothing
GetSystemVolume ==
    /\ Len(mixerLog) < MaxMixerOps
    /\ \E output \in {SgetOutput, NoOutput} :
          mixerLog' = Append(mixerLog, [op |-> "sget", ok |-> output # NoOutput,
                                        val |-> ParseVolume(output), mixer |-> mixer])
    /\ UNCHANGED <<mixer, amixerCalls>>

VolInit ==
    /\ StreamIdle
    /\ SignalIdle
    /\ UiIdle
    /\ EnvIdle
    /\ PollIdle
    /\ VolIdle

VolNext ==
    /\ \/ \E val \in VolInputs : SetSystemVolume(val)
       \/ \E val \in VolInputs : PollSetSystemVolume(val)
       \/ \E i \in 1..MaxAmixer : AmixerRun(i)
       \/ Mute
       \/ GetSystemVolume
    /\ UNCHANGED <<streamVars, sigVars, uiVars, envVars, pollVars>>

SpecVolume == VolInit /\ [][VolNext]_vars

\* C18: every amixer process setSystemVolume starts carries the unmute flag;
\* after the process of a call with value 0 has run, the mixer is at 0 percent
\* and not muted; and a getSystemVolume that reads a mixer at 0 percent
\* yields 0 rather than no value.
C18_SetVolumeUnmutes ==
    /\ \A i \in 1..Len(amixerCalls) : amixerCalls[i].unmute
    /\ \A k \in 1..Len(mixerLog) :
          /\ mixerLog[k].op = "sset" =>
                /\ mixerLog[k].call.unmute
                /\ mixerLog[k].call.val = 0 => mixerLog[k].mixer = [vol |-> 0, muted |-> FALSE]
          /\ (mixerLog[k].op = "sget" /\ mixerLog[k].ok /\ mixerLog[k].mixer.vol = 0) =>
                mixerLog[k].val = 0

\* the user muted the control, a call with value 0 ran after that, and the
\* next read gave 0 from a control that is on
C18_Witness ==
    \E k \in 1..Len(mixerLog) :
        /\ k + 2 <= Len(mixerLog)
        /\ mixerLog[k].op = "mute"
        /\ mixerLog[k + 1].op = "sset"
        /\ mixerLog[k + 1].call.val = 0
        /\ mixerLog[k + 1].mixer = [vol |-> 0, muted |-> FALSE]
        /\ mixerLog[k + 2].op = "sget"
        /\ mixerLog[k + 2].val = 0

\* C19: for every input value the percentage setSystemVolume passes to the
\* mixer is the value clamped to 0..100.
C19_VolumeClamped ==
    \A i \in 1..Len(amixerCalls) :
        /\ amixerCalls[i].percent \in 0..100
        /\ amixerCalls[i].percent = ClampVolume(amixerCalls[i].val)

(***************************************************************************)
(* The title of a local file, in both variants, under SpecMerge.           *)
(***************************************************************************)
\* the record an update of the sender meets: the one in the table, or the
\* one lines 38-48 create
MetRecord ==
    IF Conn[1] \in TableSenders(playerStateMap) THEN TableGet(playerStateMap, Conn[1])
    ELSE NewRecord(Conn[1])

\* what the merge loop of lines 54-70 leaves under a key, before the fallback
LeftBy(data, k) == IF Carried(data, k) THEN data[k] ELSE MetRecord[k]

\* !state.title || state.title === 'Unknown Title' (line 78)
Unusable(title) == title = "" \/ title = "Unknown Title"

\* C20: local-file fallback.  An update that leaves the record with no usable
\* title (none, or the placeholder 'Unknown Title') and the source url
\* file:///home/user/Song%20Name.mp3 gives it the title 'Song Name.mp3', the
\* decoded basename; an update that leaves a usable title leaves that title.
\* The polling variant's metadata of a player that reports that url and no
\* title has the same title, and a reported title is kept.
C20_LocalFileFallback ==
    [][\A data \in {Head(sigQ)} :
          /\ (Unusable(LeftBy(data, "title")) /\ LeftBy(data, "url") = SongUrl) =>
                TableGet(playerStateMap', Conn[1]).title = "Song Name.mp3"
          /\ ~Unusable(LeftBy(data, "title")) =>
                TableGet(playerStateMap', Conn[1]).title = LeftBy(data, "title")
          /\ PlayerMetadata(VlcName).title = "Song Name.mp3"
          /\ PlayerMetadata(PbiName).title = PlayerEnv(PbiName).title]_vars

\* the first update met no record and carried the url and no title, so the
\* title was derived from the url; the second update carried neither and met
\* the derived title, which it left
C20_Witness ==
    /\ lastOp.op = "second"
    /\ lastOp.a.title = ""
    /\ lastOp.a.url = SongUrl
    /\ lastOp.afterA.title = "Song Name.mp3"
    /\ lastOp.b.title = ""
    /\ lastOp.b.url = NoUrl
    /\ TableGet(playerStateMap, Conn[1]).title = "Song Name.mp3"

(***************************************************************************)
(* SpecList: one emission of the player list and of the selection, by      *)
(* sendPlayerList on any table of up to three records and by one pollLoop  *)
(* call that runs alone, on any listing of up to three players.            *)
(***************************************************************************)
MaxListed == 3

ListNames == {VlcName, VlcInstanceName, PbiName}
ListPlayers == {<<"VLC">>, <<"Chrome">>}

\* the listings getRunningPlayers can return: bus names, each once
ListOrders ==
    {o \in SeqsUpTo(ListNames, MaxListed) :
        o # <<>> /\ \A i, j \in 1..Len(o) : i # j => o[i] # o[j]}

\* state tables of n records, the i-th of connection Conn[i]
ListTables ==
    UNION {{[i \in 1..n |-> [NewRecord(Conn[i]) EXCEPT !.player = names[i],
                                                       !.status = "Playing"]] :
               names \in [1..n -> ListPlayers]} : n \in 0..MaxListed}

\* the loop of lines 888-908 over the players left in c; readable holds the
\* players getPlayerMetadata succeeds for
RECURSIVE RunLoop(_, _)
RunLoop(c, readable) ==
    IF c.players = <<>> THEN c
    ELSE RunLoop(LoopBody(c, IF Head(c.players) \in readable
                             THEN PlayerMetadata(Head(c.players))
                             ELSE NoCandidate),
                 readable)

ListInit ==
    /\ StreamIdle
    /\ UiIdle
    /\ VolIdle
    /\ playerStateMap \in ListTables
    /\ activeSenderId \in {NoSender, Conn[1]}
    /\ playerMap = <<>>
    /\ playerCache = <<>>
    /\ fetches = <<>>
    /\ clock = StartMs
    /\ refreshes = <<>>
    /\ bus = [n \in ListNames |-> NoSender]
    /\ conns = 0
    /\ actual \in [ListNames -> {"Playing", "Paused"}]
    /\ events = 0
    /\ sigQ = <<>>
    /\ lastOp = NoOp
    /\ gone = {}
    /\ requeries = [n \in Names |-> [at |-> NoTime, prev |-> NoTime]]
    /\ activePlayerName \in ListNames \cup {NoName}
    /\ lastKnownState = [title |-> "", artist |-> ""]
    /\ lastSysVol = NoVol
    /\ lastPlayerListStr = UnsentList
    /\ pollInterval = FALSE
    /\ cycles = <<>>
    /\ timers = 0
    /\ uiVolume = NoVol

\* sendPlayerList (lines 282-307)
SendPlayerList ==
    /\ lastOp = NoOp
    /\ uiList' = PlayerList(playerStateMap, activeSenderId)
    /\ lastOp' = [op |-> "sendPlayerList"]
    /\ UNCHANGED <<uiMedia, activePlayerName, lastKnownState, lastPlayerListStr>>

\* pollLoop (lines 843-948) from the listing `players` to its end, no other
\* call running
PollRun(players, readable) ==
    /\ lastOp = NoOp
    /\ LET c == RunLoop([NewCycle(FALSE) EXCEPT !.players = players], readable)
       IN  /\ PollFinish(c)
           /\ lastOp' = [op |-> "pollLoop", players |-> players,
                         all |-> c.allPlayerStates, was |-> activePlayerName]

ListNext ==
    /\ \/ SendPlayerList
       \/ \E players \in ListOrders : \E readable \in SUBSET ListNames :
             PollRun(players, readable)
    /\ UNCHANGED <<volVars, streamVars, sigVars, refreshes, bus, conns, actual, events,
                   sigQ, gone, requeries, lastSysVol, pollInterval, cycles, timers,
                   uiVolume>>

SpecList == ListInit /\ [][ListNext]_vars

\* the players a list is for: the records of the table, or the players the
\* pollLoop call read
ListedFor ==
    IF lastOp.op = "sendPlayerList" THEN TableSenders(playerStateMap)
    ELSE {lastOp.all[k].rawName : k \in 1..Len(lastOp.all)}

\* C21: a player-list-update holds exactly one entry for every tracked
\* player, and the display names of its entries are pairwise distinct.
C21_ListNamesDistinct ==
    lastOp # NoOp =>
        /\ {uiList[k].sender : k \in 1..Len(uiList)} = ListedFor
        /\ Len(uiList) = Cardinality(ListedFor)
        /\ \A i, j \in 1..Len(uiList) : i # j => uiList[i].name # uiList[j].name

(***************************************************************************)
(* Further properties of the signal-driven variant, under Spec.            *)
(***************************************************************************)
\* processSignalBlock takes the block at the head of the queue
SignalTaken == sigQ # <<>> /\ sigQ' = Tail(sigQ)

\* C22: the first PropertiesChanged signal of a live player whose connection
\* id has no record yet creates a record for that connection id.
C22_RecordOnFirstSignal ==
    [][(/\ SignalTaken
        /\ Head(sigQ).kind = "PropertiesChanged"
        /\ \E name \in Names : bus[name] = Head(sigQ).sender
        /\ Head(sigQ).sender \notin TableSenders(playerStateMap))
       => Head(sigQ).sender \in TableSenders(playerStateMap')]_vars

(***************************************************************************)
(* SpecLive: the signal-driven variant while every bus call succeeds.  The *)
(* 5000 ms interval of line 334 keeps firing and the event loop runs every *)
(* callback that is ready, hence the weak fairness of each step.           *)
(***************************************************************************)
\* the suspended updatePlayerStateManually calls SpecLive follows
LiveFetch == 2

LiveStep ==
    \/ ProcessSignalIn(LiveFetch)
    \/ \E i \in 1..Len(fetches) : FetchOwner(i)
    \/ \E i \in 1..Len(fetches) : FetchIdentify(i)
    \/ \E i \in 1..Len(fetches) : FetchGetAllIn(LiveFetch, i)
    \/ RefreshStart
    \/ \E i \in 1..Len(refreshes) : RefreshListedIn(LiveFetch, i, TRUE)
    \/ \E i \in 1..Len(refreshes) : RefreshOwnerIn(LiveFetch, i)

\* the things the players do in a behaviour of SpecLive
LiveEvents == 2

LiveNext ==
    /\ \/ events < LiveEvents /\ \E name \in Names : PlayerStart(name)
       \/ events < LiveEvents /\ \E name \in Names : PlayerExit(name)
       \/ events < LiveEvents /\ \E name \in Names : PlayerChange(name)
       \/ Tick
       \/ LiveStep
    /\ UNCHANGED <<volVars, streamVars, pollVars>>

\* the periodic refresh starts another cycle
LiveRefreshStart == RefreshStart /\ UNCHANGED <<volVars, streamVars, pollVars>>

\* when each of the other steps can be taken: the guards of the action,
\* written out as state predicates
OwnerReady == \E i \in 1..Len(fetches) : fetches[i].pc = "getOwner"

IdentifyReady == \E i \in 1..Len(fetches) : fetches[i].pc = "identify"

SignalReady ==
    /\ sigQ # <<>>
    /\ Len(ProcessSignalBlock(St, Head(sigQ), clock).fetches) <= LiveFetch

GetAllReady ==
    \E i \in 1..Len(fetches) :
        /\ fetches[i].pc = "getAll"
        /\ LET f == fetches[i]
               reply == IF bus[f.name] # NoSender THEN PlayerProps(f.name) ELSE NoData
               data == [reply EXCEPT !.sender = f.owner, !.player = f.finalName,
                                     !.lastManualUpdate = clock]
           IN  Len(UpdatePlayerState([St EXCEPT !.fetches = RemoveAt(@, i)],
                                     f.owner, data, clock).fetches) <= LiveFetch

RefreshListReady ==
    \E i \in 1..Len(refreshes) :
        /\ refreshes[i].pc = "list"
        /\ Listing = <<>> => Len(RefreshFinish(St, EmptyMap, clock).fetches) <= LiveFetch

RefreshOwnerReady ==
    \E i \in 1..Len(refreshes) :
        /\ refreshes[i].pc = "owners"
        /\ LET r == refreshes[i]
               name == Head(r.names)
               newMap == IF bus[name] # NoSender THEN MapSet(r.newMap, bus[name], name)
                         ELSE r.newMap
           IN  Tail(r.names) = <<>> =>
                  Len(RefreshFinish(St, newMap, clock).fetches) <= LiveFetch

\* the same steps, told by what they do to the queues: no other step takes
\* the head of sigQ, moves a suspended call on or out of fetches, or moves
\* a refresh cycle on
OwnerTaken ==
    \E i \in 1..Len(fetches) :
        /\ fetches[i].pc = "getOwner"
        /\ \/ fetches' = RemoveAt(fetches, i)
           \/ /\ Len(fetches') = Len(fetches)
              /\ fetches'[i].pc \in {"identify", "getAll"}

IdentifyTaken ==
    \E i \in 1..Len(fetches) :
        /\ fetches[i].pc = "identify"
        /\ Len(fetches') = Len(fetches)
        /\ fetches'[i].pc = "getAll"

GetAllTaken ==
    \E i \in 1..Len(fetches) :
        /\ fetches[i].pc = "getAll"
        /\ fetches' # fetches
        /\ Len(fetches') \in {Len(fetches) - 1, Len(fetches)}
        /\ SubSeq(fetches', 1, Len(fetches) - 1) = RemoveAt(fetches, i)

RefreshListTaken ==
    \E i \in 1..Len(refreshes) :
        /\ refreshes[i].pc = "list"
        /\ \/ refreshes' = RemoveAt(refreshes, i)
           \/ /\ Len(refreshes') = Len(refreshes)
              /\ refreshes'[i].pc = "owners"

RefreshOwnerTaken ==
    \E i \in 1..Len(refreshes) :
        /\ refreshes[i].pc = "owners"
        /\ \/ refreshes' = RemoveAt(refreshes, i)
           \/ /\ Len(refreshes') = Len(refreshes)
              /\ refreshes'[i].names = Tail(refreshes[i].names)

\* Weak fairness of every step.  For the steps other than the start of a
\* cycle, WF_vars(A) is written out as
\* []<>~ENABLED <<A>>_vars \/ []<><<A>>_vars, with the enabling conditions
\* and the steps as given above.
LiveFair ==
    /\ WF_vars(LiveRefreshStart)
    /\ []<>(~OwnerReady) \/ []<><<OwnerTaken>>_vars
    /\ []<>(~IdentifyReady) \/ []<><<IdentifyTaken>>_vars
    /\ []<>(~SignalReady) \/ []<><<SignalTaken>>_vars
    /\ []<>(~GetAllReady) \/ []<><<GetAllTaken>>_vars
    /\ []<>(~RefreshListReady) \/ []<><<RefreshListTaken>>_vars
    /\ []<>(~RefreshOwnerReady) \/ []<><<RefreshOwnerTaken>>_vars

SpecLive == Init /\ [][LiveNext]_vars /\ LiveFair

\* the connection ids that own an MPRIS name
Owners == {bus[n] : n \in Names} \ {NoSender}

\* C23: eventual convergence of membership.  Once the players stop changing,
\* the connection ids of the state table eventually are the connection ids
\* that own an MPRIS name, and stay so.
C23_MembershipConverges == <>[](TableSenders(playerStateMap) = Owners)

\* the players have stopped changing, nothing is pending, the last step was
\* the end of a refresh cycle, and the table holds exactly the connection ids
\* of the players that are running
C23_Witness ==
    /\ events = LiveEvents
    /\ sigQ = <<>>
    /\ fetches = <<>>
    /\ refreshes = <<>>
    /\ lastOp = [op |-> "refresh", listed |-> TRUE]
    /\ Owners # {}
    /\ TableSenders(playerStateMap) = Owners

(***************************************************************************)
(* The identity cache, under SpecLive, where two calls of                  *)
(* updatePlayerStateManually can be in flight for one name.                *)
(***************************************************************************)

\* C24: once the identity cache holds an entry for a well-known name, no
\* step writes a different value for that name: the entry is written once
\* and stays as written, also while several fetches of the name are in
\* flight and when the player restarts under the name.
C24_CacheWriteOnce ==
    [][\A name \in Names :
          MapHas(playerCache, name)
              => MapGet(playerCache', name, NoPlayer) = MapGet(playerCache, name, NoPlayer)]_vars

(***************************************************************************)
(* SpecExec: the polling variant with the outcome of every external        *)
(* command spelled out: what exec hands its callback (error, stderr,       *)
(* stdout), what execShell resolves to, and what its callers make of it.   *)
(***************************************************************************)

\* what exec (line 746) hands the callback: a clean exit with some output;
\* an error when the command cannot be spawned, is killed at the 2 s
\* timeout or exits with a failure; text on stderr beside any output
ExecOutcomes(stdouts) ==
    [error : {""}, stderr : {""}, stdout : stdouts]
        \cup [error : {"spawn", "timeout", "exit 1"}, stderr : {""}, stdout : {""}]
        \cup [error : {""}, stderr : {"Failed to connect to bus"}, stdout : stdouts]

ExecFailed(out) == out.error # "" \/ out.stderr # ""

\* the null execShell resolves to
ShellNull == "<null>"

\* execShell (lines 744-755)
ExecShell(out) == IF ExecFailed(out) THEN ShellNull ELSE out.stdout

\* !output
Falsy(output) == output \in {ShellNull, ""}

\* how a call ends: with a value, or by throwing
Thrown == [threw |-> TRUE]
Returned(v) == [threw |-> FALSE, value |-> v]

\* what busctl may print for ListNames: nothing, text that is not JSON, JSON
\* with no data, JSON whose data[0] is no array, and the list of names
ListStdouts == {"", "Segmentation fault", "{}", "{\"data\":[0]}", "{\"data\":[[names]]}"}

\* the try block of getRunningPlayers (lines 765-771)
ParseListing(output) ==
    IF output \in {"Segmentation fault", "{}"} THEN Thrown
    ELSE IF output = "{\"data\":[0]}" THEN Returned(<<>>)
    ELSE Returned(Listing)

\* getRunningPlayers with no catch around the parse
GetRunningPlayersNoCatch(output) ==
    IF Falsy(output) THEN Returned(<<>>) ELSE ParseListing(output)

\* getRunningPlayers (lines 759-776)
GetRunningPlayers(output) ==
    IF Falsy(output) THEN Returned(<<>>)
    ELSE IF ParseListing(output) = Thrown THEN Returned(<<>>)
    ELSE ParseListing(output)

\* what busctl may print for GetAll
MetaStdouts == {"", "Segmentation fault", "{}", "{\"data\":[props]}"}

\* getPlayerMetadata (lines 778-828): the parse of lines 786-788 throws on
\* text that is not JSON and on JSON with no data, and line 824 catches it
GetPlayerMetadata(fullName, output) ==
    IF Falsy(output) THEN Returned(NoCandidate)
    ELSE IF output \in {"Segmentation fault", "{}"} THEN Returned(NoCandidate)
    ELSE Returned(PlayerMetadata(fullName))

\* what amixer may print
VolStdouts == {"", "Simple mixer control 'Master',0", "Front Left: Playback 40634 [62%] [on]"}

\* getSystemVolume (lines 830-841) in the polling variant
PollSystemVolume(output) ==
    IF Falsy(output) THEN Returned(NoVol)
    ELSE IF output = "Front Left: Playback 40634 [62%] [on]" THEN Returned(MixerVol)
    ELSE Returned(NoVol)

ExecFrame == UNCHANGED <<volVars, streamVars, sigVars, refreshes, conns, sigQ, gone, requeries>>

\* The Promise.all of line 846 resolves or rejects; a rejection is caught at
\* line 945 and the call ends there.
ExecListed(i) ==
    /\ cycles[i].pc = "listing"
    /\ \E outVol \in ExecOutcomes(VolStdouts), outList \in ExecOutcomes(ListStdouts) :
          LET vol == PollSystemVolume(ExecShell(outVol))
              list == GetRunningPlayers(ExecShell(outList))
              caught == vol.threw \/ list.threw
          IN  /\ lastOp' = [op |-> "listing", outs |-> <<outVol, outList>>,
                            shell |-> <<ExecShell(outVol), ExecShell(outList)>>,
                            results |-> <<vol, list>>, caught |-> caught]
              /\ IF caught
                 THEN /\ cycles' = RemoveAt(cycles, i)
                      /\ UNCHANGED <<uiVolume, lastSysVol, activePlayerName, uiMedia>>
                 ELSE /\ VolumeSync(vol.value, cycles[i].force)
                      /\ IF list.value = <<>>
                         THEN /\ activePlayerName' = NoName
                              /\ uiMedia' = PollSentinel
                              /\ cycles' = RemoveAt(cycles, i)
                         ELSE /\ cycles' = [cycles EXCEPT ![i].pc = "metadata",
                                                          ![i].players = list.value]
                              /\ UNCHANGED <<activePlayerName, uiMedia>>
    /\ UNCHANGED <<lastKnownState, lastPlayerListStr, pollInterval, timers, uiList, bus,
                   actual, events>>
    /\ ExecFrame

\* a getPlayerMetadata call of line 889 resolves or rejects
ExecMeta(i) ==
    /\ cycles[i].pc = "metadata"
    /\ \E full \in ExecOutcomes(MetaStdouts) :
          LET fullName == Head(cycles[i].players)
              out == IF bus[fullName] # NoSender THEN full
                     ELSE [full EXCEPT !.error = "spawn", !.stdout = ""]
              data == GetPlayerMetadata(fullName, ExecShell(out))
          IN  /\ lastOp' = [op |-> "metadata", outs |-> <<out>>,
                            shell |-> <<ExecShell(out)>>, results |-> <<data>>,
                            caught |-> data.threw]
              /\ IF data.threw
                 THEN /\ cycles' = RemoveAt(cycles, i)
                      /\ UNCHANGED <<activePlayerName, lastKnownState, lastPlayerListStr,
                                     uiVars>>
                 ELSE LET c == LoopBody(cycles[i], data.value)
                      IN  IF c.players # <<>>
                          THEN /\ cycles' = [cycles EXCEPT ![i] = c]
                               /\ UNCHANGED <<activePlayerName, lastKnownState,
                                              lastPlayerListStr, uiVars>>
                          ELSE /\ cycles' = RemoveAt(cycles, i)
                               /\ PollFinish(c)
    /\ UNCHANGED <<lastSysVol, pollInterval, timers, uiVolume, bus, actual, events>>
    /\ ExecFrame

\* the calls of pollLoop taken one after the other
ExecCycles == 1

ExecIntervalFire == Len(cycles) < ExecCycles /\ IntervalFire

ExecNext ==
    \/ \E name \in Names : PollPlayerStart(name)
    \/ \E name \in Names : PollPlayerExit(name)
    \/ PollStartMediaMonitor
    \/ ExecIntervalFire
    \/ \E i \in 1..Len(cycles) : ExecListed(i)
    \/ \E i \in 1..Len(cycles) : ExecMeta(i)

SpecExec == PollInit /\ [][ExecNext]_vars

\* the "no result" of the k-th call of a step: null for the volume, the empty
\* list for the names, null for the metadata
NoResult(op, k) ==
    IF op = "metadata" THEN Returned(NoCandidate)
    ELSE IF k = 1 THEN Returned(NoVol)
    ELSE Returned(<<>>)

\* C25: no external command makes a call throw.  Whatever exec reports,
\* execShell resolves, to null on a spawn error, a timeout or output on
\* stderr; getSystemVolume then gives null, getRunningPlayers an empty list
\* and getPlayerMetadata null, none of them throws on any output, pollLoop's
\* catch is never reached, and the interval timer stays armed for the later
\* cycles.
C25_ExecNeverThrows ==
    lastOp.op \in {"listing", "metadata"} =>
        /\ pollInterval
        /\ ~lastOp.caught
        /\ \A k \in 1..Len(lastOp.outs) :
              /\ ~lastOp.results[k].threw
              /\ ExecFailed(lastOp.outs[k]) =>
                    /\ lastOp.shell[k] = ShellNull
                    /\ lastOp.results[k] = NoResult(lastOp.op, k)

\* the name listing timed out in a call that has ended, after a
\* getPlayerMetadata call of an earlier cycle; the timer is armed
C25_Witness ==
    /\ lastOp.op = "listing"
    /\ lastOp.outs[2].error = "timeout"
    /\ lastOp.outs[1].stderr # ""
    /\ cycles = <<>>
    /\ uiMedia = PollSentinel
    /\ lastKnownState # [title |-> "", artist |-> ""]
    /\ pollInterval

(***************************************************************************)
(* SpecMigrate: the signal-driven variant with players whose name passes   *)
(* from one connection to another while the first stays on the bus; the    *)
(* bus then reports NameOwnerChanged with both owners non-empty.           *)
(***************************************************************************)
PlayerMigrate(name) ==
    /\ bus[name] # NoSender
    /\ conns < Len(Conn)
    /\ events < LiveEvents
    /\ events' = events + 1
    /\ Len(sigQ) < MaxQueue
    /\ bus' = [bus EXCEPT ![name] = Conn[conns + 1]]
    /\ conns' = conns + 1
    /\ sigQ' = Append(sigQ, NameSignal(name, bus[name], Conn[conns + 1]))
    /\ UNCHANGED <<sigVars, uiVars, refreshes, actual, lastOp, gone, requeries>>

MigrateNext ==
    \/ LiveNext
    \/ \E name \in Names : PlayerMigrate(name) /\ UNCHANGED <<volVars, streamVars, pollVars>>

SpecMigrate == Init /\ [][MigrateNext]_vars

\* C26: once a NameOwnerChanged block that gives an MPRIS name a new owner
\* has been handled, the name map holds the name under the new owner and
\* under no other connection id, and a fetch of the player has been started.
C26_NameGainsOwner ==
    [][(/\ SignalTaken
        /\ Head(sigQ).kind = "NameOwnerChanged"
        /\ IsMprisName(Head(sigQ).name)
        /\ Head(sigQ).newOwner # "")
       => /\ MapGet(playerMap', Head(sigQ).newOwner, NoName) = Head(sigQ).name
          /\ \A o \in DOMAIN playerMap' :
                playerMap'[o] = Head(sigQ).name => o = Head(sigQ).newOwner
          /\ fetches' = Append(fetches, NewFetch(Head(sigQ).name))]_vars

(***************************************************************************)
(* The display after a change of the state table, under Spec.             *)
(***************************************************************************)

\* C27: every step that changes the state table (a merge, a removal on
\* owner loss, a purge by a refresh cycle) ends with the display holding the
\* selector's choice for the new table, or the placeholder when the table is
\* empty, and the list of the new table's players.
C27_SelectionAfterMutation ==
    [][playerStateMap' # playerStateMap
          => /\ uiMedia' = IF playerStateMap' = <<>> THEN Sentinel
                           ELSE BestPlayer(playerStateMap')
             /\ uiList' = PlayerList(playerStateMap', activeSenderId')]_vars

\* the active player has lost its owner and its record is gone; another
\* player is selected, shown, and marked in the list
C27_Witness ==
    /\ lastOp.op = "ownerLost"
    /\ lastOp.wasActive
    /\ lastOp.sender \notin TableSenders(playerStateMap)
    /\ playerStateMap # <<>>
    /\ uiMedia = BestPlayer(playerStateMap)
    /\ activeSenderId = uiMedia.sender
    /\ uiList = PlayerList(playerStateMap, activeSenderId)

(***************************************************************************)
(* SpecResolve: one identity resolution (lines 505-554) for a player       *)
(* whose Identity, DesktopEntry and command line carry channel markers.    *)
(***************************************************************************)
MaxMarkers == 2

Markers == {"beta", "dev", "canary"}

\* the words of a desktop entry or of a command line
ResolveHints == {<<>>} \cup {<<"chrome">> \o m : m \in SeqsUpTo(Markers, MaxMarkers)}

\* what the player answers for Identity
ResolveIdentities == {NoPlayer, <<"Chromium">>, <<"Chrome", "Beta">>, <<"Chrome", "Dev">>}

Resolve(name, identity, desktopEntry, cmdline) ==
    /\ lastOp = NoOp
    /\ ~MapHas(playerCache, name)
    /\ playerCache' = MapSet(playerCache, name,
                             ResolveName(name, identity, desktopEntry, cmdline))
    /\ lastOp' = [op |-> "resolve", name |-> name, identity |-> identity,
                  desktopEntry |-> desktopEntry, cmdline |-> cmdline]
    /\ UNCHANGED <<playerMap, playerStateMap, activeSenderId, fetches, clock, uiVars,
                   refreshes, bus, conns, actual, events, sigQ, gone, requeries>>

ResolveNext ==
    /\ \E name \in Names, identity \in ResolveIdentities :
          \E desktopEntry \in ResolveHints, cmdline \in ResolveHints :
             Resolve(name, identity, desktopEntry, cmdline)
    /\ UNCHANGED <<volVars, streamVars, pollVars>>

SpecResolve == Init /\ [][ResolveNext]_vars

\* C28: for each of the markers beta, dev and canary, when the marker occurs
\* in the well-known name, the desktop entry or the command line and not in
\* the resolved name, the name stored in the identity cache contains the
\* marker's suffix, whatever other marker is found beside it.
C28_ChannelSuffixes ==
    lastOp.op = "resolve" =>
        \A m \in Markers :
            (/\ NameIncludes(CheckStrings(lastOp.name, lastOp.desktopEntry, lastOp.cmdline), m)
             /\ ~NameIncludes(BaseName(lastOp.name, lastOp.identity), m))
                => NameIncludes(playerCache[lastOp.name], m)

(***************************************************************************)
(* What handleStreamData does with each piece of the stream, under         *)
(* SpecStream.                                                             *)
(***************************************************************************)
RECURSIVE JoinBlocks(_)
JoinBlocks(blocks) == IF blocks = <<>> THEN <<>> ELSE Head(blocks) \o JoinBlocks(Tail(blocks))

\* a text without its white space
DropBlank(s) == SelectSeq(s, LAMBDA tok : tok # "WS")

IsPrefix(p, s) == Len(p) <= Len(s) /\ SubSeq(s, 1, Len(p)) = p

\* the chunk a step delivers, and the blocks it dispatches
ChunkTaken == SubSeq(pending, 1, Len(pending) - Len(pending'))
NewBlocks == SubSeq(dispatched', Len(dispatched) + 1, Len(dispatched'))

\* C29: the text of the stream goes to processSignalBlock once and in order:
\* the blocks dispatched so far, the buffer and the text not yet delivered
\* make up the printed records, white space aside, and every block after the
\* first of a call starts at a record header.  A last piece that fails the
\* completeness test is kept in the buffer whole and none of it is
\* dispatched; the call whose chunk completes it, or brings the header of
\* the next record behind text of the kept piece, dispatches a block that
\* starts where the kept piece starts.
C29_DispatchOnceInOrder ==
    [][/\ IsPrefix(dispatched, dispatched')
       /\ DropBlank(JoinBlocks(dispatched') \o monitorBuffer' \o pending')
             = DropBlank(JoinBlocks(printed'))
       /\ \A k \in 2..Len(NewBlocks) : IsPrefix(Header, NewBlocks[k])
       /\ monitorBuffer' # <<>> => ~IsComplete(monitorBuffer')
       /\ (/\ pending' # pending
           /\ monitorBuffer # <<>>
           /\ \/ \E i \in SplitPoints(monitorBuffer \o ChunkTaken) :
                    Trim(SubSeq(monitorBuffer \o ChunkTaken, 1, i - 1)) # <<>>
              \/ IsComplete(monitorBuffer \o ChunkTaken))
          => /\ NewBlocks # <<>>
             /\ IsPrefix(DropBlank(NewBlocks[1]),
                         DropBlank(monitorBuffer \o ChunkTaken))]_vars

\* the first record has been dispatched whole, and the start of the second,
\* cut inside the record, waits in the buffer for the rest of it
C29_Witness ==
    /\ Len(printed) = 2
    /\ dispatched = <<printed[1]>>
    /\ monitorBuffer # <<>>
    /\ ~IsComplete(monitorBuffer)
    /\ pending # <<>>
    /\ monitorBuffer \o pending = printed[2]

(***************************************************************************)
(* The selection of one pollLoop run, under SpecList.                      *)
(***************************************************************************)
\* the names a run has read as Playing
PlayingIn(all) == {all[k].rawName : k \in {j \in 1..Len(all) : all[j].status = "Playing"}}

ReadIn(all) == {all[k].rawName : k \in 1..Len(all)}

PlayerChangeMissed(name) ==
    /\ bus[name] # NoSender
    /\ events < LiveEvents
    /\ events' = events + 1
    /\ \E status \in Statuses \ {actual[name]} : actual' = [actual EXCEPT ![name] = status]
    /\ UNCHANGED <<sigVars, uiVars, refreshes, bus, conns, sigQ, lastOp, gone, requeries>>

HealNext ==
    \/ LiveNext
    \/ \E name \in Names :
          PlayerChangeMissed(name) /\ UNCHANGED <<volVars, streamVars, pollVars>>

SpecHeal == Init /\ [][HealNext]_vars /\ LiveFair

\* every record of a running player shows the PlaybackStatus the player is in
Healed ==
    \A name \in Names :
        bus[name] \in TableSenders(playerStateMap) =>
            TableGet(playerStateMap, bus[name]).status = actual[name]

\* C31: once the players have stopped changing, the periodic refresh brings
\* the record of every running player to the player's actual PlaybackStatus,
\* also after a change whose signal was missed, and keeps it there.
C31_SelfHealing == <>[]Healed

(***************************************************************************)
(* A refresh cycle that completes beside a player announced meanwhile,     *)
(* under SpecLive.                                                         *)
(***************************************************************************)
\* a refreshPlayerMap cycle completes in this step
RefreshCompletes == Len(refreshes') < Len(refreshes)

\* the running players the name map holds under their connection id
Mapped(pm) == {name \in Names : bus[name] # NoSender /\ MapGet(pm, bus[name], NoName) = name}

\* C32: a running player that the name map holds when a refresh cycle
\* completes, its name-assigned signal having been handled while the cycle
\* waited for a bus call, is in the name map after the cycle, and its record
\* is not purged by the cycle.
C32_RefreshKeepsAnnounced ==
    [][RefreshCompletes =>
          \A name \in Mapped(playerMap) :
              /\ name \in Mapped(playerMap')
              /\ bus[name] \in TableSenders(playerStateMap)
                    => bus[name] \in TableSenders(playerStateMap')]_vars

(***************************************************************************)
(* SpecPipes: the two dbus-monitor children of startMediaMonitor (lines    *)
(* 319-328).  Each bus signal is printed by the child whose match rule it  *)
(* meets, into that child's own pipe; both 'data' listeners call           *)
(* handleStreamData, which appends to the one monitorBuffer.               *)
(***************************************************************************)
\* the child whose match rule selects the record prints it
PipeEmit ==
    /\ stream # <<>>
    /\ printed' = Append(printed, Head(stream))
    /\ stream' = Tail(stream)
    /\ IF Includes(Head(stream), "MP")
       THEN pending' = pending \o Head(stream) /\ UNCHANGED pendingSys
       ELSE pendingSys' = pendingSys \o Head(stream) /\ UNCHANGED pending
    /\ UNCHANGED <<monitorBuffer, dispatched>>

\* where a chunk of a pipe can end: the children write their output line by
\* line, and a read takes one or more whole lines
LineEnds(text) == {k \in 1..Len(text) : text[k] = "WS" \/ k = Len(text)}

\* monitor.stdout.on('data', handleStreamData) (line 322)
MonitorData ==
    \E k \in LineEnds(pending) :
        LET r == HandleStreamData(monitorBuffer, SubSeq(pending, 1, k))
        IN  /\ monitorBuffer' = r.buffer
            /\ dispatched' = dispatched \o r.ready
            /\ pending' = SubSeq(pending, k + 1, Len(pending))
            /\ UNCHANGED <<stream, printed, pendingSys>>

\* systemMonitor.stdout.on('data', handleStreamData) (line 328)
SystemMonitorData ==
    \E k \in LineEnds(pendingSys) :
        LET r == HandleStreamData(monitorBuffer, SubSeq(pendingSys, 1, k))
        IN  /\ monitorBuffer' = r.buffer
            /\ dispatched' = dispatched \o r.ready
            /\ pendingSys' = SubSeq(pendingSys, k + 1, Len(pendingSys))
            /\ UNCHANGED <<stream, printed, pending>>

PipesNext ==
    (PipeEmit \/ MonitorData \/ SystemMonitorData)
        /\ UNCHANGED <<volVars, sigVars, uiVars, envVars, pollVars>>

SpecPipes == StreamInit /\ [][PipesNext]_vars

\* everything the child with the given member in its match rule has printed
RECURSIVE PrintedBy(_, _)
PrintedBy(member, recs) ==
    IF recs = <<>> THEN <<>>
    ELSE (IF Includes(Head(recs), member) THEN Head(recs) ELSE <<>>)
             \o PrintedBy(member, Tail(recs))

\* s is a run of consecutive tokens of text
IsInfix(s, text) ==
    \E i \in 0..(Len(text) - Len(s)) : SubSeq(text, i + 1, i + Len(s)) = s

\* C33: every block handed to processSignalBlock is a run of text printed by
\* one of the two dbus-monitor children: no block joins text of one child
\* with text of the other, however their chunks interleave.
C33_BlocksFromOneMonitor ==
    \A i \in 1..Len(dispatched) :
        \/ IsInfix(dispatched[i], PrintedBy("MP", printed))
        \/ IsInfix(dispatched[i], PrintedBy("MN", printed))

\* C34: between handlers of the signal-driven variant, activeSenderId is null
\* or the key of a record in the state table, and it is null exactly when the
\* state table is empty.
C34_ActiveSenderInTable ==
    /\ activeSenderId # NoSender => activeSenderId \in TableSenders(playerStateMap)
    /\ activeSenderId = NoSender <=> playerStateMap = <<>>

\* the owner of the only record was lost while it was the active player
C34_Witness ==
    /\ lastOp.op = "ownerLost"
    /\ lastOp.wasActive
    /\ playerStateMap = <<>>
    /\ activeSenderId = NoSender
    /\ uiMedia = Sentinel

(* The change-detection cache of pollLoop (lines 935-943), under SpecPoll. *)
\* pollLoop call i ends in this step, past line 934, with best as its candidate
EndsWithCandidate(i, best) ==
    /\ cycles[i].pc = "metadata"
    /\ cycles' = RemoveAt(cycles, i)
    /\ best # NoCandidate
    /\ activePlayerName' = best.rawName
    /\ \E ok \in {bus[Head(cycles[i].players)] # NoSender, FALSE} :
          LET data == IF ok THEN PlayerMetadata(Head(cycles[i].players)) ELSE NoCandidate
              c == LoopBody(cycles[i], data)
          IN  /\ c.players = <<>>
              /\ best = ChooseCandidate(c)
              /\ lastPlayerListStr' = PlayerListPayload(c.allPlayerStates, best)

\* the candidates a pollLoop call can end with
Candidates == {PlayerMetadata(name) : name \in Names}

\* C35: after a pollLoop cycle that ends with a best candidate, the most
\* recent media-update the display has got is that candidate, also when the
\* sentinel was sent in between and the player is back with the same state.
C35_DisplayShowsCandidate ==
    [][\A i \in 1..Len(cycles), best \in Candidates :
          EndsWithCandidate(i, best) => uiMedia' = best]_vars

\* C36: after a pollLoop run in which the active player was listed and its
\* getPlayerMetadata gave null, the active selection is the one before the
\* run and the player has an entry in the player list sent.
C36_ReadFailureKeepsActive ==
    (/\ lastOp.op = "pollLoop"
     /\ lastOp.was # NoName
     /\ \E k \in 1..Len(lastOp.players) : lastOp.players[k] = lastOp.was
     /\ lastOp.was \notin ReadIn(lastOp.all))
        => /\ activePlayerName = lastOp.was
           /\ \E k \in 1..Len(uiList) : uiList[k].id = lastOp.was

(***************************************************************************)
(* SpecChain: the forced re-queries of lines 255-273 for one player.  VLC  *)
(* has just been announced (its name-assigned signal handled, the call of  *)
(* line 407 waiting for its first reply); it changes its PlaybackStatus    *)
(* and moves its name to another connection.  Every bus call that was      *)
(* started is answered and every queued signal is handled; the interval    *)
(* timer of lines 334-336 may fire or not.                                 *)
(***************************************************************************)
ChainInit ==
    /\ StreamIdle
    /\ UiIdle
    /\ PollIdle
    /\ VolIdle
    /\ playerMap = MapSet(EmptyMap, Conn[1], VlcName)
    /\ playerStateMap = <<>>
    /\ playerCache = <<>>
    /\ activeSenderId = NoSender
    /\ fetches = <<NewFetch(VlcName)>>
    /\ clock = StartMs
    /\ refreshes = <<>>
    /\ bus = [n \in Names |-> IF n = VlcName THEN Conn[1] ELSE NoSender]
    /\ conns = 1
    /\ \E status \in Statuses :
          actual = [n \in Names |-> IF n = VlcName THEN status ELSE "Stopped"]
    /\ events = 0
    /\ sigQ = <<>>
    /\ lastOp = [op |-> "other"]
    /\ gone = {}
    /\ requeries = [n \in Names |-> [at |-> NoTime, prev |-> NoTime]]

ChainNext ==
    /\ \/ PlayerChange(VlcName)
       \/ PlayerMigrate(VlcName)
       \/ Tick
       \/ LiveStep
    /\ UNCHANGED <<volVars, streamVars, pollVars>>

ChainOwner ==
    /\ \E i \in 1..Len(fetches) : FetchOwner(i)
    /\ UNCHANGED <<volVars, streamVars, pollVars>>

ChainFair ==
    /\ WF_vars(ChainOwner)
    /\ []<>(~IdentifyReady) \/ []<><<IdentifyTaken>>_vars
    /\ []<>(~SignalReady) \/ []<><<SignalTaken>>_vars
    /\ []<>(~GetAllReady) \/ []<><<GetAllTaken>>_vars
    /\ []<>(~RefreshListReady) \/ []<><<RefreshListTaken>>_vars
    /\ []<>(~RefreshOwnerReady) \/ []<><<RefreshOwnerTaken>>_vars

SpecChain == ChainInit /\ [][ChainNext]_vars /\ ChainFair

\* the interval timer starts a refresh cycle, or the player does something
TimerOrSignal == Len(refreshes') > Len(refreshes) \/ events' # events

\* no handler is waiting for a bus call and no signal is queued
Quiescent == fetches = <<>> /\ refreshes = <<>> /\ sigQ = <<>>

\* two records have the same PlaybackStatus: the comparison of lines 226-233
\* goes on to their times, and the selection depends on how far the clock
\* has moved, which the model follows up to MaxTicks only
RecencyDecides ==
    \E i, j \in 1..Len(playerStateMap) :
        i # j /\ playerStateMap[i].status = playerStateMap[j].status

\* C37: once no timer fires and the player emits no signal any more, the
\* forced re-queries started by sendBestAvailablePlayer come to an end and
\* the service is quiescent from some point on, also when the winner's title
\* stays the placeholder and the name queried belongs to another connection
\* than the winning record.  (Behaviours in which records of equal status
\* stay in the table, or a signal stays in the queue, are left out.)
C37_RefreshChainTerminates ==
    \/ []<><<TimerOrSignal>>_vars
    \/ []<>RecencyDecides
    \/ []<>(sigQ # <<>>)
    \/ <>[]Quiescent


====
